---------------------------- MODULE Spec2Model ----------------------------
(***************************************************************************)
(* A model of the AEAD benchmark repository: the crypto_aead_encrypt /    *)
(* crypto_aead_decrypt wrappers (HiAE, HiAEx4, AES-128-GCM over OpenSSL),  *)
(* the constant-time tag comparison crypto_verify_16 / crypto_verify_32,   *)
(* the backend dispatcher of HiAE, the state update of AEGIS-128x2, and    *)
(* the benchmark harness with its timer and statistics (timing.h).         *)
(*                                                                         *)
(* C integers keep their width.  TLC's integers are 32 bits wide, so an    *)
(* unsigned int is a pair and an unsigned long long a 4-tuple of 16-bit    *)
(* limbs, least significant limb first.                                    *)
(***************************************************************************)
EXTENDS Integers, Sequences, FiniteSets, TLC

VARIABLES
    va, vb,              \* two runs of crypto_verify_16/32, stepped together
    impl,                \* which crypto_aead implementation the binary links
    pc,                  \* position of the test driver
    enc,                 \* the last crypto_aead_encrypt call: arguments and effects
    dec,                 \* the last crypto_aead_decrypt call: arguments and effects
    cpu,                 \* what the CPU probe reports
    hiae_impl,           \* the dispatcher's process-wide cache of the resolved backend
    ncalls,              \* HiAE calls made by the process so far
    thr,                 \* the threads of a caller, or the one thread of a
                         \* benchmark: position and locals
    heap,                \* the memory they work on: contexts, the statistics
                         \* object, the benchmark's buffers
    ag,                  \* two runs of aegis128x2_update, stepped together
    build                \* the build of aegis-128x2-vaes: target, outcome, calls served

vars == <<va, vb, impl, pc, enc, dec, cpu, hiae_impl, ncalls, thr, heap, ag, build>>

---------------------------------------------------------------------------
(* Bytes and machine words                                                 *)

Limb == 2^16

RECURSIVE BitXor(_, _, _)
BitXor(a, b, n) ==
    IF n = 0 THEN 0
    ELSE ((a + b) % 2) + 2 * BitXor(a \div 2, b \div 2, n - 1)

RECURSIVE BitOr(_, _, _)
BitOr(a, b, n) ==
    IF n = 0 THEN 0
    ELSE (IF a % 2 = 1 \/ b % 2 = 1 THEN 1 ELSE 0)
         + 2 * BitOr(a \div 2, b \div 2, n - 1)

\* x ^ y on two unsigned char
Xor8(a, b) == BitXor(a, b, 8)

\* an unsigned value below 2^31 as k limbs
RECURSIVE ToLimbs(_, _)
ToLimbs(n, k) ==
    IF k = 0 THEN <<>> ELSE <<n % Limb>> \o ToLimbs(n \div Limb, k - 1)

U32(n) == ToLimbs(n, 2)
U64(n) == ToLimbs(n, 4)

\* u + c and u - b with wrap-around at the width of u
RECURSIVE AddCarry(_, _)
AddCarry(u, c) ==
    IF u = <<>> THEN <<>>
    ELSE LET s == Head(u) + c
         IN  <<s % Limb>> \o AddCarry(Tail(u), s \div Limb)

RECURSIVE SubBorrow(_, _)
SubBorrow(u, b) ==
    IF u = <<>> THEN <<>>
    ELSE LET s == Head(u) - b
         IN  IF s >= 0 THEN <<s>> \o SubBorrow(Tail(u), 0)
             ELSE <<s + Limb>> \o SubBorrow(Tail(u), 1)

\* u < n for a small n
RECURSIVE HighZero(_, _)
HighZero(u, from) ==
    IF from > Len(u) THEN TRUE ELSE u[from] = 0 /\ HighZero(u, from + 1)

LtSmall(u, n) == HighZero(u, 2) /\ u[1] < n

IsZero(u) == HighZero(u, 1)

\* the value of a word whose high limbs are zero
Small(u) == u[1] + Limb * u[2]

\* conversion to C int: the low 32 bits, two's complement
ToInt32(u) ==
    IF u[2] >= Limb \div 2 THEN (u[2] - Limb) * Limb + u[1]
    ELSE u[2] * Limb + u[1]

\* conversion of a C int to unsigned long long: sign extension
IntToU64(i) ==
    IF i >= 0 THEN U64(i)
    ELSE LET p == (i + 2^30) + 2^30
         IN  <<p % Limb, (p \div Limb) + (Limb \div 2), Limb - 1, Limb - 1>>

---------------------------------------------------------------------------
(* Buffers and pointers                                                    *)

CRYPTO_KEYBYTES == 16
CRYPTO_NPUBBYTES == 12
CRYPTO_ABYTES == 16

\* bytes of absorption per state update
Rate == 16

NULL == [null |-> TRUE, buf |-> <<>>]
Ptr(s) == [null |-> FALSE, buf |-> s]

\* an unsigned long long the caller owns; NoLen is a missing one
LenPtr(v) == [null |-> FALSE, val |-> v]
NoLen == [null |-> TRUE, val |-> U64(0)]

\* the bytes of buf with bytes stored at offset off
WriteAt(buf, off, bytes) ==
    [j \in 1..Len(buf) |->
        IF j > off /\ j <= off + Len(bytes) THEN bytes[j - off] ELSE buf[j]]

Fits(buf, off, n) == off >= 0 /\ off + n <= Len(buf)

---------------------------------------------------------------------------
(* The ciphers behind the wrappers.  HiAE_amalgamated.c, HiAEx4.h and      *)
(* OpenSSL's EVP interface are not among the sources: they are modelled    *)
(* from the specification's AEAD protocol layer as a keystream XORed into  *)
(* the message and a tag over the zero-padded associated data, the         *)
(* zero-padded ciphertext and both lengths.                                *)

Salt(alg) == CASE alg = "hiae" -> 11 [] alg = "hiaex4" -> 29 [] OTHER -> 53

KeystreamByte(alg, k, n, i) ==
    (k[(i % Len(k)) + 1] * 3 + n[(i % Len(n)) + 1] * 5 + i * 7 + Salt(alg)) % 256

\* in XOR keystream, the keystream starting at byte offset off
StreamXor(alg, k, n, in, off) ==
    [j \in 1..Len(in) |-> Xor8(in[j], KeystreamByte(alg, k, n, off + j - 1))]

MacKey(alg, k) == 1 + ((k[1] * 7 + k[Len(k)] + Salt(alg)) % 256)

\* h^e in the field of the tag
RECURSIVE PowMod(_, _)
PowMod(h, e) ==
    IF e = 0 THEN 1
    ELSE LET r == PowMod(h, e \div 2)
         IN  (r * r * (IF e % 2 = 1 THEN h ELSE 1)) % 257

\* what bytes lo..hi of s add to the state once all of s is absorbed, each
\* byte being added to the state and the state then multiplied by h
RECURSIVE Absorb(_, _, _, _)
Absorb(h, s, lo, hi) ==
    IF lo > hi THEN 0
    ELSE IF lo = hi THEN (s[lo] * PowMod(h, Len(s) - lo + 1)) % 257
    ELSE LET mid == (lo + hi) \div 2
         IN  (Absorb(h, s, lo, mid) + Absorb(h, s, mid + 1, hi)) % 257

ZeroPad(s) == [j \in 1..((Rate - (Len(s) % Rate)) % Rate) |-> 0]

\* the final state: associated data, ciphertext, then the two lengths
Finalize(alg, k, ad, ct) ==
    LET h == MacKey(alg, k)
        s == ad \o ZeroPad(ad) \o ct \o ZeroPad(ct)
             \o <<Len(ad) % 256, Len(ad) \div 256, Len(ct) % 256, Len(ct) \div 256>>
    IN  (PowMod(h, Len(s)) + Absorb(h, s, 1, Len(s))) % 257

TagOf(alg, k, n, ad, ct) ==
    LET acc == Finalize(alg, k, ad, ct)
    IN  [j \in 1..CRYPTO_ABYTES |->
            Xor8(KeystreamByte(alg, k, n, 1000 + j),
                 CASE j = 1 -> acc % 256
                   [] j = 2 -> acc \div 256
                   [] OTHER -> (acc * j) % 256)]

\* the backend dispatcher of HiAE: the first match in priority order
Features == {"aesni", "avx512f", "vaes", "armcrypto"}

\* the mutant: AES-NI is tried before VAES/AVX-512
ResolveBackend_aesni_first(probe) ==
    IF "aesni" \in probe THEN "aesni"
    ELSE IF {"vaes", "avx512f"} \subseteq probe THEN "vaes_avx512"
    ELSE IF "armcrypto" \in probe THEN "arm_crypto"
    ELSE "software"

ResolveBackend(probe) ==
    IF {"vaes", "avx512f"} \subseteq probe THEN "vaes_avx512"
    ELSE IF "aesni" \in probe THEN "aesni"
    ELSE IF "armcrypto" \in probe THEN "arm_crypto"
    ELSE "software"

\* the mutant: every call resolves again, preferring what it has not used yet
hiae_init_dispatch_again(cache, probe) ==
    IF cache = "unresolved" THEN ResolveBackend(probe)
    ELSE IF cache = "software" THEN ResolveBackend(probe \cup {"aesni"})
    ELSE "software"

\* lazy resolution on first use, cached for the process
hiae_init_dispatch(cache, probe) ==
    IF cache # "unresolved" THEN cache ELSE ResolveBackend(probe)

\* HiAE_encrypt(key, nonce, msg, ct, msg_len, ad, ad_len, tag): every backend
\* computes the same function
HiAE_encrypt(alg, k, n, msg, ad) ==
    LET ct == StreamXor(alg, k, n, msg, 0)
    IN  [ret |-> 0, ct |-> ct, tag |-> TagOf(alg, k, n, ad, ct)]

\* HiAE_decrypt(key, nonce, msg, ct, ct_len, ad, ad_len, tag): no plaintext
\* unless the tag matches
HiAE_decrypt(alg, k, n, ct, ad, tag) ==
    IF TagOf(alg, k, n, ad, ct) = tag
    THEN [ret |-> 0, released |-> TRUE, msg |-> StreamXor(alg, k, n, ct, 0)]
    ELSE [ret |-> -1, released |-> FALSE, msg |-> <<>>]

\* OpenSSL's EVP_CIPHER_CTX for AES-128-GCM
NewCtx == [key_set |-> FALSE, iv_set |-> FALSE, key |-> <<>>, iv |-> <<>>,
           aad |-> <<>>, ct |-> <<>>, tag_set |-> FALSE, tag |-> <<>>]

\* EVP_EncryptInit_ex / EVP_DecryptInit_ex: a NULL key or iv leaves that part
\* of the context as it is; a new iv starts a new message
EVP_Init_ex(ctx, key, iv) ==
    LET c1 == IF key.null THEN ctx
              ELSE [ctx EXCEPT !.key_set = TRUE, !.key = key.buf]
    IN  IF iv.null THEN c1
        ELSE [c1 EXCEPT !.iv_set = TRUE, !.iv = iv.buf,
                        !.aad = <<>>, !.ct = <<>>, !.tag_set = FALSE]

\* EVP_EncryptUpdate / EVP_DecryptUpdate(ctx, out, &outl, in, inl): with out
\* NULL the input is associated data.  ret 1 is success; ub marks a read
\* through a NULL or too short input.
EVP_Update(ctx, decrypt, out_null, in, inl) ==
    LET bad == [ret |-> 0, ub |-> FALSE, ctx |-> ctx, out |-> <<>>, outl |-> 0]
    IN  IF inl < 0 \/ ~ctx.key_set \/ ~ctx.iv_set THEN bad
        ELSE IF inl > 0 /\ (in.null \/ inl > Len(in.buf))
        THEN [bad EXCEPT !.ub = TRUE]
        ELSE LET data == SubSeq(in.buf, 1, inl)
             IN  IF out_null
                 THEN IF ctx.ct # <<>> THEN bad
                      ELSE [ret |-> 1, ub |-> FALSE,
                            ctx |-> [ctx EXCEPT !.aad = @ \o data],
                            out |-> <<>>, outl |-> inl]
                 ELSE LET res == StreamXor("aesgcm", ctx.key, ctx.iv, data,
                                           Len(ctx.ct))
                      IN  [ret |-> 1, ub |-> FALSE,
                           ctx |-> [ctx EXCEPT !.ct = @ \o (IF decrypt THEN data
                                                            ELSE res)],
                           out |-> res, outl |-> inl]

\* the tag EVP_CTRL_GCM_GET_TAG copies out after EVP_EncryptFinal_ex
EVP_Tag(ctx) == TagOf("aesgcm", ctx.key, ctx.iv, ctx.aad, ctx.ct)

\* EVP_DecryptFinal_ex: positive exactly when the expected tag was set and
\* equals the tag of what was processed
EVP_DecryptFinal_ex(ctx) ==
    IF ctx.key_set /\ ctx.iv_set /\ ctx.tag_set /\ ctx.tag = EVP_Tag(ctx)
    THEN 1 ELSE 0

---------------------------------------------------------------------------
(* crypto_aead_encrypt / crypto_aead_decrypt of HiAE and HiAEx4.  The two   *)
(* wrappers are the same text but for the cipher they call, which alg      *)
(* names.  A call's arguments are a record a; its effects are a record:    *)
(* ret, ub (the call's behaviour is undefined: no result can be relied     *)
(* on), the output buffer and the output length after the call, and how    *)
(* often the cipher was invoked and a context created and freed.           *)

Take(p, n) == IF n = 0 THEN <<>> ELSE SubSeq(p.buf, 1, n)

\* the mutant: a NULL buffer is refused whatever its length
hiae_missing_any(len, p) == p.null

\* len > 0 && !p
hiae_missing(len, p) == ~IsZero(len) /\ p.null

\* uint8_t *tag = c + mlen, as an offset into c
hiae_tag_offset(mlen) == Small(mlen)

\* *clen = mlen + CRYPTO_ABYTES
hiae_clen(mlen) == AddCarry(mlen, CRYPTO_ABYTES)

hiae_crypto_aead_encrypt(alg, a) ==
    LET rejected == [ret |-> -1, ub |-> FALSE, c |-> a.c.buf, clen |-> a.clen.val,
                     cipher_calls |-> 0, ctx_new |-> 0, ctx_free |-> 0]
    IN  IF a.c.null \/ a.clen.null \/ a.npub.null \/ a.k.null THEN rejected
        ELSE IF hiae_missing(a.mlen, a.m) THEN rejected
        ELSE IF hiae_missing(a.adlen, a.ad) THEN rejected
        ELSE LET tag == hiae_tag_offset(a.mlen)
                 r   == HiAE_encrypt(alg, a.k.buf, a.npub.buf,
                                     Take(a.m, Small(a.mlen)),
                                     Take(a.ad, Small(a.adlen)))
             IN  [ret |-> r.ret,
                  ub |-> ~(Fits(a.c.buf, 0, Len(r.ct))
                           /\ Fits(a.c.buf, tag, CRYPTO_ABYTES)),
                  c |-> WriteAt(WriteAt(a.c.buf, 0, r.ct), tag, r.tag),
                  clen |-> IF r.ret = 0 THEN hiae_clen(a.mlen) ELSE a.clen.val,
                  cipher_calls |-> 1, ctx_new |-> 0, ctx_free |-> 0]

\* unsigned long long msg_len = clen - CRYPTO_ABYTES
hiae_msg_len(clen) == SubBorrow(clen, CRYPTO_ABYTES)

\* the mutant: the tag is read one byte early
hiae_dec_tag_offset_early(msg_len) == IF IsZero(msg_len) THEN 0 ELSE Small(msg_len) - 1

\* const uint8_t *tag = c + msg_len, as an offset into c
hiae_dec_tag_offset(msg_len) == Small(msg_len)

hiae_crypto_aead_decrypt(alg, a) ==
    LET rejected == [ret |-> -1, ub |-> FALSE, m |-> a.m.buf, mlen |-> a.mlen.val,
                     cipher_calls |-> 0, ctx_new |-> 0, ctx_free |-> 0]
    IN  IF a.c.null \/ a.npub.null \/ a.k.null THEN rejected
        ELSE IF LtSmall(a.clen, CRYPTO_ABYTES) THEN rejected
        ELSE LET msg_len == hiae_msg_len(a.clen)
             IN  IF hiae_missing(msg_len, a.m) THEN rejected
                 ELSE IF hiae_missing(a.adlen, a.ad) THEN rejected
                 ELSE LET tag == hiae_dec_tag_offset(msg_len)
                          r   == HiAE_decrypt(alg, a.k.buf, a.npub.buf,
                                              Take(a.c, Small(msg_len)),
                                              Take(a.ad, Small(a.adlen)),
                                              SubSeq(a.c.buf, tag + 1,
                                                     tag + CRYPTO_ABYTES))
                      IN  [ret |-> r.ret,
                           ub |-> ~(Fits(a.c.buf, tag, CRYPTO_ABYTES)
                                    /\ (a.m.null \/ Fits(a.m.buf, 0, Len(r.msg)))),
                           m |-> IF r.released THEN WriteAt(a.m.buf, 0, r.msg)
                                 ELSE a.m.buf,
                           mlen |-> IF r.ret = 0 /\ ~a.mlen.null THEN msg_len
                                    ELSE a.mlen.val,
                           cipher_calls |-> 1, ctx_new |-> 0, ctx_free |-> 0]

---------------------------------------------------------------------------
(* crypto_aead_encrypt / crypto_aead_decrypt of AES-128-GCM.  A call is a  *)
(* chain of steps over a record st of the function's locals; a step that   *)
(* returns clears st.live and the later steps do nothing.  env.fail is the *)
(* number of the library call that fails in this run (0: none).            *)

GcmStart(out) ==
    [live |-> TRUE, ret |-> 0, ub |-> FALSE, ctx |-> NewCtx, out |-> out,
     len |-> 0, total |-> 0, final |-> 0,
     cipher_calls |-> 0, ctx_new |-> 0, ctx_free |-> 0, stale |-> FALSE]

\* a library call is made; stale records a call made on a context that was
\* already freed
Called(st) == [st EXCEPT !.cipher_calls = @ + 1, !.stale = @ \/ st.ctx_free > 0]

\* return -1 before a context exists
GcmReturn(st, ret) == [st EXCEPT !.live = FALSE, !.ret = ret]

\* the mutant: the error path returns without freeing the context
GcmFreeReturn_leak(st, ret) == [st EXCEPT !.live = FALSE, !.ret = ret]

\* EVP_CIPHER_CTX_free(ctx); return -1
GcmFreeReturn(st, ret) ==
    [st EXCEPT !.live = FALSE, !.ret = ret, !.ctx_free = @ + 1]

\* the behaviour is undefined from here on
GcmUndefined(st) == [st EXCEPT !.live = FALSE, !.ub = TRUE]

\* if(!(ctx = EVP_CIPHER_CTX_new())) return -1
gcm_ctx_new(st, env) ==
    IF ~st.live THEN st
    ELSE IF env.fail = 1 THEN GcmReturn(Called(st), -1)
    ELSE [Called(st) EXCEPT !.ctx = NewCtx, !.ctx_new = @ + 1]

\* EVP_EncryptInit_ex / EVP_DecryptInit_ex(ctx, EVP_aes_128_gcm(), NULL, NULL, NULL)
gcm_init_cipher(st, env) ==
    IF ~st.live THEN st
    ELSE IF env.fail = 2 THEN GcmFreeReturn(Called(st), -1)
    ELSE Called(st)

\* EVP_CIPHER_CTX_ctrl(ctx, EVP_CTRL_GCM_SET_IVLEN, CRYPTO_NPUBBYTES, NULL)
gcm_set_ivlen(st, env) ==
    IF ~st.live THEN st
    ELSE IF env.fail = 3 THEN GcmFreeReturn(Called(st), -1)
    ELSE Called(st)

\* EVP_EncryptInit_ex / EVP_DecryptInit_ex(ctx, NULL, NULL, k, npub)
gcm_init_key(st, a, env) ==
    IF ~st.live THEN st
    ELSE IF env.fail = 4 THEN GcmFreeReturn(Called(st), -1)
    ELSE [Called(st) EXCEPT !.ctx = EVP_Init_ex(@, a.k, a.npub)]

\* if(adlen > 0) EVP_EncryptUpdate / EVP_DecryptUpdate(ctx, NULL, &len, ad, adlen)
gcm_update_aad(st, a, env, decrypt) ==
    IF ~st.live \/ IsZero(a.adlen) THEN st
    ELSE LET u == EVP_Update(st.ctx, decrypt, TRUE, a.ad, ToInt32(a.adlen))
         IN  IF env.fail = 5 THEN GcmFreeReturn(Called(st), -1)
             ELSE IF u.ub THEN GcmUndefined(Called(st))
             ELSE IF u.ret # 1 THEN GcmFreeReturn(Called(st), -1)
             ELSE [Called(st) EXCEPT !.ctx = u.ctx, !.len = u.outl]

\* EVP_EncryptUpdate(ctx, c, &len, m, mlen); ciphertext_len = len
\* EVP_DecryptUpdate(ctx, m, &len, c, clen - CRYPTO_ABYTES); plaintext_len = len
gcm_update_msg(st, out_null, in, inl, env, decrypt) ==
    IF ~st.live THEN st
    ELSE LET u == EVP_Update(st.ctx, decrypt, out_null, in, ToInt32(inl))
         IN  IF env.fail = 6 THEN GcmFreeReturn(Called(st), -1)
             ELSE IF u.ub \/ (~out_null /\ ~Fits(st.out, 0, Len(u.out)))
             THEN GcmUndefined(Called(st))
             ELSE IF u.ret # 1 THEN GcmFreeReturn(Called(st), -1)
             ELSE [Called(st) EXCEPT !.ctx = u.ctx, !.len = u.outl,
                                     !.total = u.outl,
                                     !.out = WriteAt(@, 0, u.out)]

\* EVP_EncryptFinal_ex(ctx, c + len, &len); ciphertext_len += len
gcm_encrypt_final(st, env) ==
    IF ~st.live THEN st
    ELSE IF env.fail = 7 THEN GcmFreeReturn(Called(st), -1)
    ELSE [Called(st) EXCEPT !.len = 0, !.total = @ + 0]

\* EVP_CIPHER_CTX_ctrl(ctx, EVP_CTRL_GCM_GET_TAG, CRYPTO_ABYTES, c + ciphertext_len)
gcm_get_tag(st, a, env) ==
    IF ~st.live THEN st
    ELSE IF env.fail = 8 THEN GcmFreeReturn(Called(st), -1)
    ELSE IF a.c.null \/ ~Fits(st.out, st.total, CRYPTO_ABYTES)
    THEN GcmUndefined(Called(st))
    ELSE [Called(st) EXCEPT !.out = WriteAt(@, st.total, EVP_Tag(st.ctx))]

\* EVP_CIPHER_CTX_free(ctx); *clen = ciphertext_len + CRYPTO_ABYTES; return 0
gcm_encrypt_done(st, a) ==
    IF ~st.live THEN st
    ELSE IF a.clen.null THEN GcmUndefined([st EXCEPT !.ctx_free = @ + 1])
    ELSE [GcmFreeReturn(st, 0) EXCEPT !.final = 1]

gcm_crypto_aead_encrypt(a, env) ==
    LET s1 == gcm_ctx_new(GcmStart(a.c.buf), env)
        s2 == gcm_init_cipher(s1, env)
        s3 == gcm_set_ivlen(s2, env)
        s4 == gcm_init_key(s3, a, env)
        s5 == gcm_update_aad(s4, a, env, FALSE)
        s6 == gcm_update_msg(s5, a.c.null, a.m, a.mlen, env, FALSE)
        s7 == gcm_encrypt_final(s6, env)
        s8 == gcm_get_tag(s7, a, env)
        s9 == gcm_encrypt_done(s8, a)
    IN  [ret |-> s9.ret, ub |-> s9.ub, c |-> s9.out,
         clen |-> IF s9.final = 1 THEN IntToU64(s9.total + CRYPTO_ABYTES)
                  ELSE a.clen.val,
         cipher_calls |-> s9.cipher_calls,
         ctx_new |-> s9.ctx_new, ctx_free |-> s9.ctx_free, ctx_stale |-> s9.stale]

\* the mutant: no length check
gcm_check_clen_off(st, a) == st

\* if (clen < CRYPTO_ABYTES) return -1
gcm_check_clen(st, a) ==
    IF LtSmall(a.clen, CRYPTO_ABYTES) THEN GcmReturn(st, -1) ELSE st

\* EVP_CIPHER_CTX_ctrl(ctx, EVP_CTRL_GCM_SET_TAG, CRYPTO_ABYTES,
\*                     (unsigned char *)c + clen - CRYPTO_ABYTES)
gcm_set_tag(st, a, env) ==
    IF ~st.live THEN st
    ELSE IF env.fail = 7 THEN GcmFreeReturn(Called(st), -1)
    ELSE LET off == SubBorrow(a.clen, CRYPTO_ABYTES)
         IN  IF a.c.null \/ ~HighZero(off, 3)
                \/ ~Fits(a.c.buf, Small(off), CRYPTO_ABYTES)
             THEN GcmUndefined(Called(st))
             ELSE [Called(st) EXCEPT
                     !.ctx = [@ EXCEPT !.tag_set = TRUE,
                                       !.tag = SubSeq(a.c.buf, Small(off) + 1,
                                                      Small(off) + CRYPTO_ABYTES)]]

\* the mutant: a result of 0 from EVP_DecryptFinal_ex counts as success
gcm_accept_zero(ret) == ret >= 0

\* if(ret > 0)
gcm_accept(ret) == ret > 0

\* ret = EVP_DecryptFinal_ex(ctx, m + len, &len); EVP_CIPHER_CTX_free(ctx);
\* if(ret > 0) { plaintext_len += len; *mlen = plaintext_len; return 0; }
\* else return -1
gcm_decrypt_final(st, a, env) ==
    IF ~st.live THEN st
    ELSE LET ret == IF env.fail = 8 THEN 0 ELSE EVP_DecryptFinal_ex(st.ctx)
             s   == [Called(st) EXCEPT !.ctx_free = @ + 1, !.len = 0]
         IN  IF gcm_accept(ret)
             THEN IF a.mlen.null THEN GcmUndefined(s)
                  ELSE [s EXCEPT !.live = FALSE, !.ret = 0, !.final = 1,
                                 !.total = @ + 0]
             ELSE [s EXCEPT !.live = FALSE, !.ret = -1]

gcm_crypto_aead_decrypt(a, env) ==
    LET s0 == gcm_check_clen(GcmStart(a.m.buf), a)
        s1 == gcm_ctx_new(s0, env)
        s2 == gcm_init_cipher(s1, env)
        s3 == gcm_set_ivlen(s2, env)
        s4 == gcm_init_key(s3, a, env)
        s5 == gcm_update_aad(s4, a, env, TRUE)
        s6 == gcm_update_msg(s5, a.m.null, a.c,
                             SubBorrow(a.clen, CRYPTO_ABYTES), env, TRUE)
        s7 == gcm_set_tag(s6, a, env)
        s8 == gcm_decrypt_final(s7, a, env)
    IN  [ret |-> s8.ret, ub |-> s8.ub, m |-> s8.out,
         mlen |-> IF s8.final = 1 THEN IntToU64(s8.total) ELSE a.mlen.val,
         cipher_calls |-> s8.cipher_calls,
         ctx_new |-> s8.ctx_new, ctx_free |-> s8.ctx_free, ctx_stale |-> s8.stale]

\* the context a caller of the bulk functions passes in: created, cipher and
\* key set ("key remains the same")
BulkCtx(k) == EVP_Init_ex(NewCtx, k, NULL)

\* if(!EVP_DecryptInit_ex(ctx, NULL, NULL, NULL, npub)) return -1
gcm_bulk_init_iv(st, a, env) ==
    IF ~st.live THEN st
    ELSE IF env.fail = 4 THEN GcmReturn(Called(st), -1)
    ELSE [Called(st) EXCEPT !.ctx = EVP_Init_ex(@, NULL, a.npub)]

\* crypto_aead_decrypt_bulk(ctx, m, mlen, nsec, c, clen, ad, adlen, npub, k):
\* the statements of crypto_aead_decrypt without creating, keying or freeing
\* the context
gcm_crypto_aead_decrypt_bulk(ctx, a, env) ==
    LET s0 == gcm_check_clen([GcmStart(a.m.buf) EXCEPT !.ctx = ctx], a)
        s4 == gcm_bulk_init_iv(s0, a, env)
        s5 == gcm_update_aad(s4, a, env, TRUE)
        s6 == gcm_update_msg(s5, a.m.null, a.c,
                             SubBorrow(a.clen, CRYPTO_ABYTES), env, TRUE)
        s7 == gcm_set_tag(s6, a, env)
        s8 == gcm_decrypt_final(s7, a, env)
    IN  [ret |-> s8.ret, ub |-> s8.ub, m |-> s8.out,
         mlen |-> IF s8.final = 1 THEN IntToU64(s8.total) ELSE a.mlen.val,
         cipher_calls |-> s8.cipher_calls,
         ctx_new |-> 0, ctx_free |-> 0, ctx |-> s8.ctx]

\* the mutant: the bulk call keys the context with its k argument
gcm_bulk_encrypt_init_rekey(st, a, env) ==
    IF ~st.live THEN st
    ELSE IF env.fail = 4 THEN GcmReturn(Called(st), -1)
    ELSE [Called(st) EXCEPT !.ctx = EVP_Init_ex(@, a.k, a.npub)]

\* if(1 != EVP_EncryptInit_ex(ctx, NULL, NULL, NULL, npub)) return -1
gcm_bulk_encrypt_init(st, a, env) ==
    IF ~st.live THEN st
    ELSE IF env.fail = 4 THEN GcmReturn(Called(st), -1)
    ELSE [Called(st) EXCEPT !.ctx = EVP_Init_ex(@, NULL, a.npub)]

\* crypto_aead_encrypt_bulk(ctx, c, clen, m, mlen, ad, adlen, nsec, npub, k):
\* the statements of crypto_aead_encrypt without creating, keying or freeing
\* the context; ctx is the caller's context after the call
gcm_crypto_aead_encrypt_bulk(ctx, a, env) ==
    LET s0 == [GcmStart(a.c.buf) EXCEPT !.ctx = ctx]
        s4 == gcm_bulk_encrypt_init(s0, a, env)
        s5 == gcm_update_aad(s4, a, env, FALSE)
        s6 == gcm_update_msg(s5, a.c.null, a.m, a.mlen, env, FALSE)
        s7 == gcm_encrypt_final(s6, env)
        s8 == gcm_get_tag(s7, a, env)
        s9 == gcm_encrypt_done(s8, a)
    IN  [ret |-> s9.ret, ub |-> s9.ub, c |-> s9.out,
         clen |-> IF s9.final = 1 THEN IntToU64(s9.total + CRYPTO_ABYTES)
                  ELSE a.clen.val,
         cipher_calls |-> s9.cipher_calls,
         ctx_new |-> 0, ctx_free |-> 0, ctx |-> s9.ctx]

---------------------------------------------------------------------------
(* crypto_verify_16 / crypto_verify_32                                     *)

\* differentbits |= x[i] ^ y[i], on an unsigned int
OrInto(differentbits, x, y) ==
    <<BitOr(differentbits[1], Xor8(x, y), 16), differentbits[2]>>

\* the mutant: the final "- 1" is lost
verify_return_no_minus(differentbits) ==
    LET dm1   == SubBorrow(differentbits, 1)
        shr8  == <<(dm1[1] \div 256) + (dm1[2] % 256) * 256, dm1[2] \div 256>>
        and1  == <<shr8[1] % 2, 0>>
    IN  ToInt32(and1)

\* (1 & ((differentbits - 1) >> 8)) - 1, in unsigned int, returned as int
verify_return(differentbits) ==
    LET dm1   == SubBorrow(differentbits, 1)
        shr8  == <<(dm1[1] \div 256) + (dm1[2] % 256) * 256, dm1[2] \div 256>>
        and1  == <<shr8[1] % 2, 0>>
    IN  ToInt32(SubBorrow(and1, 1))

\* one run: its inputs and the locals of the function
VerifyStart(n, x, y) ==
    [n |-> n, x |-> x, y |-> y, i |-> 0, differentbits |-> U32(0),
     pc |-> "loop", ret |-> 0, visited |-> <<>>]

\* the mutant: the loop leaves at the first mismatching byte
verify_step_early_exit(r) ==
    IF r.pc # "loop" THEN r
    ELSE IF r.i < r.n /\ IsZero(r.differentbits)
    THEN [r EXCEPT !.differentbits = OrInto(@, r.x[r.i + 1], r.y[r.i + 1]),
                   !.i = @ + 1,
                   !.visited = Append(@, r.i)]
    ELSE [r EXCEPT !.pc = "done", !.ret = verify_return(r.differentbits)]

\* one evaluation of the loop condition and, if it holds, of the loop body
verify_step(r) ==
    IF r.pc # "loop" THEN r
    ELSE IF r.i < r.n
    THEN [r EXCEPT !.differentbits = OrInto(@, r.x[r.i + 1], r.y[r.i + 1]),
                   !.i = @ + 1,
                   !.visited = Append(@, r.i)]
    ELSE [r EXCEPT !.pc = "done", !.ret = verify_return(r.differentbits)]

\* test inputs: a base array, and the base with chosen bytes changed
BaseBytes(n) == [j \in 1..n |-> (j * 17 + 3) % 256]

Changed(s, p, d) == [s EXCEPT ![p] = Xor8(@, d)]

\* how many byte values a changed position is XORed with
NumDeltas == 3

Delta(k) == CASE k = 1 -> 1 [] k = 2 -> 128 [] k = 3 -> 255 [] OTHER -> ((k * 37) % 255) + 1

VerifyPairs(n) ==
    LET b == BaseBytes(n)
    IN  {<<b, b>>}
        \cup {<<b, Changed(b, p, Delta(k))>> : p \in {1, n \div 2, n}, k \in 1..NumDeltas}
        \cup {<<Changed(b, 1, Delta(k)), Changed(b, n, Delta(k))>> : k \in 1..NumDeltas}

IdleRun == [n |-> 0, x |-> <<>>, y |-> <<>>, i |-> 0, differentbits |-> U32(0),
            pc |-> "idle", ret |-> 0, visited |-> <<>>]

AeadIdle ==
    /\ impl = "none"
    /\ pc = "idle"
    /\ enc = [op |-> "none"]
    /\ dec = [op |-> "none"]

BackendIdle ==
    /\ cpu = {}
    /\ hiae_impl = "unresolved"
    /\ ncalls = 0

VerifyIdle == va = IdleRun /\ vb = IdleRun

ThreadsIdle == thr = <<>> /\ heap = <<>>

AegisIdle == ag = <<>> /\ build = <<>>

InitVerify ==
    /\ \E n \in {16, 32} :
         \E a \in VerifyPairs(n), b \in VerifyPairs(n) :
            /\ va = VerifyStart(n, a[1], a[2])
            /\ vb = VerifyStart(n, b[1], b[2])
    /\ AeadIdle
    /\ BackendIdle
    /\ ThreadsIdle
    /\ AegisIdle

\* both runs take their next step
VerifyStep ==
    /\ va.pc = "loop" \/ vb.pc = "loop"
    /\ va' = verify_step(va)
    /\ vb' = verify_step(vb)
    /\ UNCHANGED <<impl, pc, enc, dec, cpu, hiae_impl, ncalls, thr, heap, ag, build>>

NextVerify == VerifyStep

SpecVerify == InitVerify /\ [][NextVerify]_vars

---------------------------------------------------------------------------
(* The test driver: one encrypt call, then one decrypt call on its output  *)
(* (test.c: encrypt, decrypt, compare; flip a bit, decrypt again; empty    *)
(* plaintext) or on arguments with a buffer missing.                       *)

\* how many keys and associated-data lengths
NumKeys == 2
NumAd == 2
\* bytes of an output buffer beyond what the call needs
Guard == 2

Algs == {"hiae", "hiaex4", "aesgcm"}

NonceLen(alg) == IF alg = "aesgcm" THEN CRYPTO_NPUBBYTES ELSE 16

\* memset(key, 1, ...) of the benchmarks, then 00 01 02 ... of test.c
KeyBytes(j) ==
    [i \in 1..CRYPTO_KEYBYTES |-> IF j = 1 THEN 1 ELSE (i - 1 + 16 * (j - 2)) % 256]

\* memset(nonce, 1, ...)
NonceBytes(alg) == [i \in 1..NonceLen(alg) |-> 1]

\* memset(msg, 0x1, len)
DataBytes(len) == [i \in 1..len |-> 1]

MsgLens == {0, 1, Rate - 1, Rate, Rate + 1, 2 * Rate}

AdLen(a) == IF a <= 1 THEN a ELSE (a - 1) * Rate + 1

\* a buffer and its length; a zero-length one may be NULL
Inputs(lens) ==
    {[p |-> Ptr(DataBytes(n)), len |-> U64(n)] : n \in lens}
    \cup {[p |-> NULL, len |-> U64(0)] : n \in lens \cap {0}}

\* a message of 2^32 + 1 bytes, of which the model holds the first
BigMsg == [p |-> Ptr(DataBytes(1)), len |-> <<1, 0, 1, 0>>]

MsgInputs(alg) ==
    Inputs(MsgLens) \cup (IF alg = "aesgcm" THEN {BigMsg} ELSE {})

AdInputs == Inputs({AdLen(a) : a \in 0..NumAd})

Filled(n) == [j \in 1..n |-> 170]

Poison == U64(57005)

\* the bytes of a buffer of len bytes that the model holds
Held(len) == IF HighZero(len, 3) THEN Small(len) ELSE len[1]

EncArgs(alg, kj, ad, m) ==
    [c |-> Ptr(Filled(Held(m.len) + CRYPTO_ABYTES + Guard)),
     clen |-> LenPtr(Poison),
     m |-> m.p, mlen |-> m.len, ad |-> ad.p, adlen |-> ad.len,
     npub |-> Ptr(NonceBytes(alg)), k |-> Ptr(KeyBytes(kj))]

ValidEncArgs(alg) ==
    {EncArgs(alg, kj, ad, m) :
        kj \in 1..NumKeys, ad \in AdInputs, m \in MsgInputs(alg)}

\* the arguments with one buffer missing
Missing(a, which) ==
    CASE which = "c"    -> [a EXCEPT !.c = NULL]
      [] which = "clen" -> [a EXCEPT !.clen = NoLen]
      [] which = "mlen" -> [a EXCEPT !.mlen = NoLen]
      [] which = "m"    -> [a EXCEPT !.m = NULL]
      [] which = "ad"   -> [a EXCEPT !.ad = NULL]
      [] which = "npub" -> [a EXCEPT !.npub = NULL]
      [] which = "k"    -> [a EXCEPT !.k = NULL]

NoFault == [fail |-> 0]

Faults(alg) == IF alg = "aesgcm" THEN {[fail |-> f] : f \in 0..8} ELSE {NoFault}

crypto_aead_encrypt(alg, a, env) ==
    IF alg = "aesgcm" THEN gcm_crypto_aead_encrypt(a, env)
    ELSE hiae_crypto_aead_encrypt(alg, a)

crypto_aead_decrypt(alg, a, env) ==
    IF alg = "aesgcm" THEN gcm_crypto_aead_decrypt(a, env)
    ELSE hiae_crypto_aead_decrypt(alg, a)

\* every required buffer is there
EncRequired(a) ==
    /\ ~a.c.null /\ ~a.clen.null /\ ~a.npub.null /\ ~a.k.null
    /\ ~IsZero(a.mlen) => ~a.m.null
    /\ ~IsZero(a.adlen) => ~a.ad.null

DecRequired(a) ==
    /\ ~a.c.null /\ ~a.npub.null /\ ~a.k.null
    /\ ~LtSmall(a.clen, CRYPTO_ABYTES + 1) => ~a.m.null
    /\ ~IsZero(a.adlen) => ~a.ad.null

Init ==
    /\ impl \in Algs
    /\ pc = "start"
    /\ enc = [op |-> "none"]
    /\ dec = [op |-> "none"]
    /\ VerifyIdle
    /\ BackendIdle
    /\ ThreadsIdle
    /\ AegisIdle

DoEncrypt(a, env) ==
    /\ enc' = [op |-> "enc", args |-> a, env |-> env,
               res |-> crypto_aead_encrypt(impl, a, env)]
    /\ pc' = "encrypted"
    /\ UNCHANGED <<impl, dec, va, vb, cpu, hiae_impl, ncalls, thr, heap, ag, build>>

\* crypto_aead_encrypt on buffers that are all there
Encrypt ==
    /\ pc = "start"
    /\ \E a \in ValidEncArgs(impl), env \in Faults(impl) : DoEncrypt(a, env)

\* crypto_aead_encrypt with one buffer missing
EncryptMissing ==
    /\ pc = "start"
    /\ \E a \in ValidEncArgs(impl), which \in {"c", "clen", "m", "ad", "npub", "k"} :
          /\ which = "m" => ~IsZero(a.mlen)
          /\ which = "ad" => ~IsZero(a.adlen)
          /\ DoEncrypt(Missing(a, which), NoFault)

\* the encrypt call produced an output to decrypt
Encrypted ==
    /\ pc = "encrypted"
    /\ EncRequired(enc.args)
    /\ enc.res.ret = 0 /\ ~enc.res.ub

\* decrypt's arguments: the output of encrypt, the same ad, nonce and key
DecArgs ==
    [m |-> Ptr(Filled(Held(enc.res.clen) - CRYPTO_ABYTES + Guard)),
     mlen |-> LenPtr(Poison),
     c |-> Ptr(enc.res.c), clen |-> enc.res.clen,
     ad |-> enc.args.ad, adlen |-> enc.args.adlen,
     npub |-> enc.args.npub, k |-> enc.args.k]

\* c with bit number bit flipped
FlipBit(c, bit) ==
    [c EXCEPT !.buf = [@ EXCEPT ![(bit \div 8) + 1] = Xor8(@, 2 ^ (bit % 8))]]

DoDecrypt(kind, flip, a, env) ==
    /\ dec' = [op |-> "dec", kind |-> kind, flip |-> flip, args |-> a, env |-> env,
               res |-> crypto_aead_decrypt(impl, a, env)]
    /\ pc' = "decrypted"
    /\ UNCHANGED <<impl, enc, va, vb, cpu, hiae_impl, ncalls, thr, heap, ag, build>>

\* crypto_aead_decrypt of what encrypt produced
Decrypt ==
    /\ Encrypted
    /\ \E env \in Faults(impl) : DoDecrypt("roundtrip", 0, DecArgs, env)

\* one bit of the ciphertext or of the tag is flipped, then crypto_aead_decrypt
DecryptTampered ==
    /\ Encrypted
    /\ \E bit \in 0..(8 * Held(enc.res.clen) - 1) :
          DoDecrypt("tampered", bit, [DecArgs EXCEPT !.c = FlipBit(@, bit)], NoFault)

\* crypto_aead_decrypt with one buffer missing
DecryptMissing ==
    /\ Encrypted
    /\ \E which \in {"c", "m", "mlen", "ad", "npub", "k"} :
          /\ which = "ad" => ~IsZero(enc.args.adlen)
          /\ DoDecrypt("missing", 0, Missing(DecArgs, which), NoFault)

\* crypto_aead_decrypt of less than a tag
DecryptShort ==
    /\ Encrypted
    /\ \E n \in {0, CRYPTO_ABYTES - 1} :
          DoDecrypt("short", 0, [DecArgs EXCEPT !.clen = U64(n)], NoFault)

\* crypto_aead_decrypt_bulk on a context that holds the key: of what encrypt
\* produced, and of less than a tag
DecryptBulk ==
    /\ Encrypted
    /\ impl = "aesgcm"
    /\ \E n \in {0, CRYPTO_ABYTES - 1, Held(enc.res.clen)} :
          LET a == [DecArgs EXCEPT !.clen = IF n = Held(enc.res.clen) THEN @ ELSE U64(n)]
          IN  /\ dec' = [op |-> "dec",
                         kind |-> IF n = Held(enc.res.clen) THEN "bulk" ELSE "bulkshort",
                         flip |-> 0, args |-> a, env |-> NoFault,
                         res |-> gcm_crypto_aead_decrypt_bulk(BulkCtx(a.k), a, NoFault)]
              /\ pc' = "decrypted"
              /\ UNCHANGED <<impl, enc, va, vb, cpu, hiae_impl, ncalls, thr, heap, ag, build>>

Next ==
    \/ Encrypt
    \/ EncryptMissing
    \/ Decrypt
    \/ DecryptTampered
    \/ DecryptMissing
    \/ DecryptShort
    \/ DecryptBulk

Spec == Init /\ [][Next]_vars

---------------------------------------------------------------------------
(* One process calling HiAE again and again on a machine whose CPU has the *)
(* features cpu: the first call that reaches the cipher resolves the       *)
(* backend, the later ones find it resolved.                               *)

\* calls the process makes
MaxCalls == 3

BackendInputs ==
    {a \in ValidEncArgs("hiae") : Small(a.mlen) \in {0, Rate + 1} /\ IsZero(a.adlen)}
    \cup {Missing(a, "k") : a \in {b \in ValidEncArgs("hiae") :
                                       IsZero(b.mlen) /\ IsZero(b.adlen)}}

InitBackend ==
    /\ impl = "hiae"
    /\ pc = "start"
    /\ enc = [op |-> "none"]
    /\ dec = [op |-> "none"]
    /\ VerifyIdle
    /\ ThreadsIdle
    /\ AegisIdle
    /\ cpu \in SUBSET Features
    /\ hiae_impl = "unresolved"
    /\ ncalls = 0

\* what a call leaves in the dispatcher's cache
Dispatched(res) ==
    IF res.cipher_calls > 0 THEN hiae_init_dispatch(hiae_impl, cpu) ELSE hiae_impl

BackendEncrypt ==
    /\ ncalls < MaxCalls
    /\ \E a \in BackendInputs :
          LET res == crypto_aead_encrypt(impl, a, NoFault)
          IN  /\ enc' = [op |-> "enc", args |-> a, env |-> NoFault, res |-> res]
              /\ hiae_impl' = Dispatched(res)
    /\ pc' = "encrypted"
    /\ dec' = [op |-> "none"]
    /\ ncalls' = ncalls + 1
    /\ UNCHANGED <<impl, va, vb, cpu, thr, heap, ag, build>>

BackendDecrypt ==
    /\ ncalls < MaxCalls
    /\ Encrypted
    /\ LET res == crypto_aead_decrypt(impl, DecArgs, NoFault)
       IN  /\ dec' = [op |-> "dec", kind |-> "roundtrip", flip |-> 0,
                      args |-> DecArgs, env |-> NoFault, res |-> res]
           /\ hiae_impl' = Dispatched(res)
    /\ pc' = "decrypted"
    /\ ncalls' = ncalls + 1
    /\ UNCHANGED <<impl, enc, va, vb, cpu, thr, heap, ag, build>>

NextBackend == BackendEncrypt \/ BackendDecrypt

SpecBackend == InitBackend /\ [][NextBackend]_vars

---------------------------------------------------------------------------
(* Concurrent first use of HiAE: several threads make their first call at  *)
(* the same time.  hiae_impl is the handle every call reads; heap holds    *)
(* the selection it stands for, the functions of the chosen backend.  A    *)
(* thread that finds the handle unresolved probes the CPU and stores the   *)
(* selection, the handle by compare-and-set.                               *)

\* threads calling at the same time
NumThreads == 2

Threads == 1..NumThreads

\* the mutant: the handle is stored before the selection it stands for
hiae_init_order_handle_first == <<"handle", "enc", "dec">>

\* the stores of one resolving thread, in program order
hiae_init_order == <<"enc", "dec", "handle">>

NoSelection == [enc |-> "unset", dec |-> "unset"]

FirstUseStart == [pc |-> "load", seen |-> "unresolved", sel |-> "unresolved",
                  k |-> 0, used |-> NoSelection]

InitFirstUse ==
    /\ AeadIdle
    /\ VerifyIdle
    /\ AegisIdle
    /\ cpu \in SUBSET Features
    /\ hiae_impl = "unresolved"
    /\ ncalls = 0
    /\ heap = NoSelection
    /\ thr = [t \in Threads |-> FirstUseStart]

FirstUseFrame == UNCHANGED <<va, vb, impl, pc, enc, dec, cpu, ncalls, ag, build>>

\* the call reads the handle
LoadHandle(t) ==
    /\ thr[t].pc = "load"
    /\ thr' = [thr EXCEPT ![t].seen = hiae_impl,
                          ![t].pc = IF hiae_impl = "unresolved" THEN "probe" ELSE "use"]
    /\ UNCHANGED <<hiae_impl, heap>>
    /\ FirstUseFrame

\* the handle was unresolved: probe the CPU
ProbeCpu(t) ==
    /\ thr[t].pc = "probe"
    /\ thr' = [thr EXCEPT ![t].sel = ResolveBackend(cpu), ![t].k = 1,
                          ![t].pc = "store"]
    /\ UNCHANGED <<hiae_impl, heap>>
    /\ FirstUseFrame

\* one store of the resolving thread; after the last the handle is read again
StoreSelection(t) ==
    /\ thr[t].pc = "store"
    /\ LET f    == hiae_init_order[thr[t].k]
           last == thr[t].k = Len(hiae_init_order)
       IN  /\ IF f = "handle"
              THEN /\ hiae_impl' = hiae_init_dispatch(hiae_impl, cpu)
                   /\ heap' = heap
              ELSE /\ heap' = [heap EXCEPT ![f] = thr[t].sel]
                   /\ hiae_impl' = hiae_impl
           /\ thr' = [thr EXCEPT ![t].k = @ + 1,
                                 ![t].pc = IF last THEN "load" ELSE "store"]
    /\ FirstUseFrame

\* the call runs on the backend the handle stands for
UseBackend(t) ==
    /\ thr[t].pc = "use"
    /\ thr' = [thr EXCEPT ![t].used = heap, ![t].pc = "done"]
    /\ ncalls' = ncalls + 1
    /\ UNCHANGED <<hiae_impl, heap>>
    /\ UNCHANGED <<va, vb, impl, pc, enc, dec, cpu, ag, build>>

NextFirstUse ==
    \E t \in Threads :
        \/ LoadHandle(t)
        \/ ProbeCpu(t)
        \/ StoreSelection(t)
        \/ UseBackend(t)

SpecFirstUse == InitFirstUse /\ [][NextFirstUse]_vars

---------------------------------------------------------------------------
(* aegis128x2_update of aegis-128x2-vaes.  An aes_block_t is a 256-bit     *)
(* vector, here 32 bytes: bytes 1..16 are its low and bytes 17..32 its     *)
(* high 128-bit half.  The AES round is the round of the AESENC            *)
(* instruction: ShiftRows, SubBytes, MixColumns, then XOR with the round   *)
(* key.                                                                    *)

SBox ==
  <<99, 124, 119, 123, 242, 107, 111, 197,  48,   1, 103,  43, 254, 215, 171, 118,
    202, 130, 201, 125, 250,  89,  71, 240, 173, 212, 162, 175, 156, 164, 114, 192,
    183, 253, 147,  38,  54,  63, 247, 204,  52, 165, 229, 241, 113, 216,  49,  21,
    4, 199,  35, 195,  24, 150,   5, 154,   7,  18, 128, 226, 235,  39, 178, 117,
    9, 131,  44,  26,  27, 110,  90, 160,  82,  59, 214, 179,  41, 227,  47, 132,
    83, 209,   0, 237,  32, 252, 177,  91, 106, 203, 190,  57,  74,  76,  88, 207,
    208, 239, 170, 251,  67,  77,  51, 133,  69, 249,   2, 127,  80,  60, 159, 168,
    81, 163,  64, 143, 146, 157,  56, 245, 188, 182, 218,  33,  16, 255, 243, 210,
    205,  12,  19, 236,  95, 151,  68,  23, 196, 167, 126,  61, 100,  93,  25, 115,
    96, 129,  79, 220,  34,  42, 144, 136,  70, 238, 184,  20, 222,  94,  11, 219,
    224,  50,  58,  10,  73,   6,  36,  92, 194, 211, 172,  98, 145, 149, 228, 121,
    231, 200,  55, 109, 141, 213,  78, 169, 108,  86, 244, 234, 101, 122, 174,   8,
    186, 120,  37,  46,  28, 166, 180, 198, 232, 221, 116,  31,  75, 189, 139, 138,
    112,  62, 181, 102,  72,   3, 246,  14,  97,  53,  87, 185, 134, 193,  29, 158,
    225, 248, 152,  17, 105, 217, 142, 148, 155,  30, 135, 233, 206,  85,  40, 223,
    140, 161, 137,  13, 191, 230,  66, 104,  65, 153,  45,  15, 176,  84, 187,  22>>

\* multiplication by x in GF(2^8) modulo x^8 + x^4 + x^3 + x + 1
XTime(a) == IF 2 * a >= 256 THEN Xor8((2 * a) - 256, 27) ELSE 2 * a

\* byte r of column c after ShiftRows and SubBytes; bytes are numbered from 0,
\* column by column
SubShift(s, r, c) == SBox[s[r + 4 * ((c + r) % 4) + 1] + 1]

\* byte r of column c after MixColumns of the substituted, shifted state
MixColumn(s, r, c) ==
    LET a0 == SubShift(s, r, c)
        a1 == SubShift(s, (r + 1) % 4, c)
        a2 == SubShift(s, (r + 2) % 4, c)
        a3 == SubShift(s, (r + 3) % 4, c)
    IN  Xor8(Xor8(XTime(a0), Xor8(XTime(a1), a1)), Xor8(a2, a3))

\* AESENC on one 128-bit block: state s, round key k
AesRound(s, k) ==
    [j \in 1..16 |-> Xor8(MixColumn(s, (j - 1) % 4, (j - 1) \div 4), k[j])]

\* the low (h = 0) or high (h = 1) 128-bit half of a 256-bit vector
Half(v, h) == SubSeq(v, 16 * h + 1, 16 * h + 16)

\* _mm256_xor_si256
AES_BLOCK_XOR(a, b) == [j \in 1..32 |-> Xor8(a[j], b[j])]

\* the mutant: the high half takes the low half's round key
AES_ENC_cross(a, b) ==
    AesRound(Half(a, 0), Half(b, 0)) \o AesRound(Half(a, 1), Half(b, 0))

\* _mm256_aesenc_epi128: one AES round in each 128-bit half
AES_ENC(a, b) ==
    AesRound(Half(a, 0), Half(b, 0)) \o AesRound(Half(a, 1), Half(b, 1))

\* a run of aegis128x2_update: pc is the source line about to execute, mem the
\* memory around the state argument (mem[1] and mem[10] lie outside it,
\* mem[Lane(i)] is state[i]), tmp the local, d1 and d2 the by-value arguments
Lane(i) == i + 2

Store(r, i, v) == [r EXCEPT !.mem[Lane(i)] = v]

\* the mutant: no saved copy, state[0] absorbs the already updated state[7]
aegis128x2_update_no_tmp(r) ==
    LET S(i) == r.mem[Lane(i)]
        at(q) == [q EXCEPT !.pc = IF r.pc = 78 THEN 80 ELSE r.pc + 1]
    IN  IF r.pc = 70 THEN at([r EXCEPT !.tmp = S(7)])
        ELSE IF r.pc \in 71..77
             THEN at(Store(r, 78 - r.pc, AES_ENC(S(77 - r.pc), S(78 - r.pc))))
        ELSE IF r.pc = 78 THEN at(Store(r, 0, AES_ENC(S(7), S(0))))
        ELSE IF r.pc = 80 THEN at(Store(r, 0, AES_BLOCK_XOR(S(0), r.d1)))
        ELSE at(Store(r, 4, AES_BLOCK_XOR(S(4), r.d2)))

\* the mutant: tmp is never assigned and is read as declared
aegis128x2_update_unset_tmp(r) ==
    LET S(i) == r.mem[Lane(i)]
        at(q) == [q EXCEPT !.pc = IF r.pc = 78 THEN 80 ELSE r.pc + 1]
    IN  IF r.pc = 70 THEN at(r)
        ELSE IF r.pc \in 71..77
             THEN at(Store(r, 78 - r.pc, AES_ENC(S(77 - r.pc), S(78 - r.pc))))
        ELSE IF r.pc = 78 THEN at(Store(r, 0, AES_ENC(r.tmp, S(0))))
        ELSE IF r.pc = 80 THEN at(Store(r, 0, AES_BLOCK_XOR(S(0), r.d1)))
        ELSE at(Store(r, 4, AES_BLOCK_XOR(S(4), r.d2)))

\* one statement of aegis128x2_update: line 70 saves state[7], lines 71..77
\* update state[7] down to state[1] in place, line 78 updates state[0] from the
\* saved copy, lines 80 and 81 absorb d1 and d2
aegis128x2_update(r) ==
    LET S(i) == r.mem[Lane(i)]
        at(q) == [q EXCEPT !.pc = IF r.pc = 78 THEN 80 ELSE r.pc + 1]
    IN  IF r.pc = 70 THEN at([r EXCEPT !.tmp = S(7)])
        ELSE IF r.pc \in 71..77
             THEN at(Store(r, 78 - r.pc, AES_ENC(S(77 - r.pc), S(78 - r.pc))))
        ELSE IF r.pc = 78 THEN at(Store(r, 0, AES_ENC(r.tmp, S(0))))
        ELSE IF r.pc = 80 THEN at(Store(r, 0, AES_BLOCK_XOR(S(0), r.d1)))
        ELSE at(Store(r, 4, AES_BLOCK_XOR(S(4), r.d2)))

\* the first line of the body and the line of its closing brace
UpdateEntry == 70
UpdateReturn == 82

\* the mutant: the translation unit compiles for every target
vaes_guard_any(arch) == TRUE

\* #if defined(__x86_64__) || defined(_M_X64)
vaes_guard(arch) == arch = "x86_64"

Archs == {"x86_64", "aarch64", "other"}

NumSeeds == 2
NumJunk == 2

\* test data: a 256-bit block whose halves differ
Block256(seed) == [j \in 1..32 |-> (seed * 37 + j * 11 + (j \div 17) * 101) % 256]

\* what an unassigned local or foreign memory may hold
Junk(g) == [j \in 1..32 |-> (g * 91 + j) % 256]

\* eight lanes of state
StateOf(seed) == [i \in 1..8 |-> Block256(8 * seed + i)]

\* a call aegis128x2_update(state, d1, d2) about to run: the state sits between
\* two foreign blocks, tmp holds whatever the stack held
UpdateStart(seed, dseed, g) ==
    [pc |-> UpdateEntry,
     mem |-> <<Junk(g)>> \o StateOf(seed) \o <<Junk(g + 1)>>,
     tmp |-> Junk(g + 2),
     d1 |-> Block256(100 + dseed), d2 |-> Block256(200 + dseed)]

InitAegis ==
    /\ AeadIdle /\ BackendIdle /\ VerifyIdle /\ ThreadsIdle
    /\ \E arch \in Archs :
           build = [arch |-> arch, status |-> "none", served |-> 0]
    /\ \E seed \in 1..NumSeeds, dseed \in 1..NumSeeds, ga \in 1..NumJunk, gb \in 1..NumJunk :
           ag = [a |-> UpdateStart(seed, dseed, ga),
                 b |-> UpdateStart(seed, dseed, gb),
                 state0 |-> StateOf(seed)]

AegisFrame ==
    UNCHANGED <<va, vb, impl, pc, enc, dec, cpu, hiae_impl, ncalls, thr, heap>>

\* compiling encrypt.c: the body is compiled on x86-64, every other target
\* stops at the #error of the #else branch
CompileVaes ==
    /\ build.status = "none"
    /\ build' = [build EXCEPT !.status = IF vaes_guard(build.arch) THEN "ok" ELSE "error"]
    /\ UNCHANGED ag
    /\ AegisFrame

\* one statement of the update in both runs; a run that reaches the closing
\* brace has served its call
UpdateStep ==
    /\ build.status = "ok"
    /\ ag.a.pc # UpdateReturn
    /\ LET a == aegis128x2_update(ag.a)
           b == aegis128x2_update(ag.b)
       IN  /\ ag' = [ag EXCEPT !.a = a, !.b = b]
           /\ build' = IF a.pc = UpdateReturn
                       THEN [build EXCEPT !.served = @ + 1]
                       ELSE build
    /\ AegisFrame

NextAegis == CompileVaes \/ UpdateStep

SpecAegis == InitAegis /\ [][NextAegis]_vars

---------------------------------------------------------------------------
(* Concurrent sessions.  Every thread makes one call on its own key,       *)
(* nonce and buffers: crypto_aead_encrypt or crypto_aead_decrypt of the    *)
(* AES-128-GCM wrapper, one library call per step, crypto_aead_encrypt of  *)
(* HiAE, or the session of the ROCCA-S benchmark loop.  The contexts       *)
(* EVP_CIPHER_CTX_new returns live in the shared heap; everything else of  *)
(* a call is on its thread's stack.  log is the order in which a session   *)
(* reached the cipher.                                                     *)

NumSessions == 2

Sessions == 1..NumSessions

SessionKinds == {"enc", "dec", "hiae", "rocca"}

\* what crypto_aead_encrypt hands back when the call has returned in state st
gcm_encrypt_result(st, a) ==
    [ret |-> st.ret, ub |-> st.ub, c |-> st.out,
     clen |-> IF st.final = 1 THEN IntToU64(st.total + CRYPTO_ABYTES)
              ELSE a.clen.val,
     cipher_calls |-> st.cipher_calls,
     ctx_new |-> st.ctx_new, ctx_free |-> st.ctx_free, ctx_stale |-> st.stale]

gcm_decrypt_result(st, a) ==
    [ret |-> st.ret, ub |-> st.ub, m |-> st.out,
     mlen |-> IF st.final = 1 THEN IntToU64(st.total) ELSE a.mlen.val,
     cipher_calls |-> st.cipher_calls,
     ctx_new |-> st.ctx_new, ctx_free |-> st.ctx_free, ctx_stale |-> st.stale]

\* the mutant: the message is processed before the associated data
gcm_encrypt_step_msg_first(k, st, a, env) ==
    CASE k = 1 -> [phase |-> "new",    st |-> gcm_ctx_new(st, env)]
      [] k = 2 -> [phase |-> "cipher", st |-> gcm_init_cipher(st, env)]
      [] k = 3 -> [phase |-> "ivlen",  st |-> gcm_set_ivlen(st, env)]
      [] k = 4 -> [phase |-> "init",   st |-> gcm_init_key(st, a, env)]
      [] k = 5 -> [phase |-> "msg",
                   st |-> gcm_update_msg(st, a.c.null, a.m, a.mlen, env, FALSE)]
      [] k = 6 -> [phase |-> "ad",     st |-> gcm_update_aad(st, a, env, FALSE)]
      [] k = 7 -> [phase |-> "final",  st |-> gcm_encrypt_final(st, env)]
      [] k = 8 -> [phase |-> "tag",    st |-> gcm_get_tag(st, a, env)]
      [] k = 9 -> [phase |-> "return", st |-> gcm_encrypt_done(st, a)]

\* the k-th statement of crypto_aead_encrypt of the GCM wrapper and the phase
\* of the cipher it belongs to
gcm_encrypt_step(k, st, a, env) ==
    CASE k = 1 -> [phase |-> "new",    st |-> gcm_ctx_new(st, env)]
      [] k = 2 -> [phase |-> "cipher", st |-> gcm_init_cipher(st, env)]
      [] k = 3 -> [phase |-> "ivlen",  st |-> gcm_set_ivlen(st, env)]
      [] k = 4 -> [phase |-> "init",   st |-> gcm_init_key(st, a, env)]
      [] k = 5 -> [phase |-> "ad",     st |-> gcm_update_aad(st, a, env, FALSE)]
      [] k = 6 -> [phase |-> "msg",
                   st |-> gcm_update_msg(st, a.c.null, a.m, a.mlen, env, FALSE)]
      [] k = 7 -> [phase |-> "final",  st |-> gcm_encrypt_final(st, env)]
      [] k = 8 -> [phase |-> "tag",    st |-> gcm_get_tag(st, a, env)]
      [] k = 9 -> [phase |-> "return", st |-> gcm_encrypt_done(st, a)]

\* the k-th statement of crypto_aead_decrypt of the GCM wrapper
gcm_decrypt_step(k, st, a, env) ==
    CASE k = 1 -> [phase |-> "new",    st |-> gcm_ctx_new(gcm_check_clen(st, a), env)]
      [] k = 2 -> [phase |-> "cipher", st |-> gcm_init_cipher(st, env)]
      [] k = 3 -> [phase |-> "ivlen",  st |-> gcm_set_ivlen(st, env)]
      [] k = 4 -> [phase |-> "init",   st |-> gcm_init_key(st, a, env)]
      [] k = 5 -> [phase |-> "ad",     st |-> gcm_update_aad(st, a, env, TRUE)]
      [] k = 6 -> [phase |-> "msg",
                   st |-> gcm_update_msg(st, a.m.null, a.c,
                                         SubBorrow(a.clen, CRYPTO_ABYTES), env, TRUE)]
      [] k = 7 -> [phase |-> "settag", st |-> gcm_set_tag(st, a, env)]
      [] k = 8 -> [phase |-> "final",  st |-> gcm_decrypt_final(st, a, env)]

\* the k-th call of a session of the ROCCA-S benchmark loop: rocca_init,
\* if (ad) rocca_add_ad, rocca_encrypt, rocca_tag
rocca_session_step(k, a) ==
    CASE k = 1 -> [phase |-> "init", called |-> TRUE]
      [] k = 2 -> [phase |-> "ad",   called |-> ~a.ad.null]
      [] k = 3 -> [phase |-> "msg",  called |-> TRUE]
      [] k = 4 -> [phase |-> "tag",  called |-> TRUE]

\* the mutant: every call gets the same context object
gcm_ctx_slot_shared(t) == 1

\* ctx = EVP_CIPHER_CTX_new(): a call's context is an object of its own
gcm_ctx_slot(t) == t

\* the arguments of session t's encrypt call: its own key, nonce, message,
\* associated data (every other session has none) and output buffer
SessionEncArgs(alg, t) ==
    [EncArgs(alg, t + 1,
             IF t % 2 = 1 THEN [p |-> Ptr(DataBytes(2)), len |-> U64(2)]
                          ELSE [p |-> NULL, len |-> U64(0)],
             [p |-> Ptr(DataBytes(t)), len |-> U64(t)])
        EXCEPT !.npub = Ptr([i \in 1..NonceLen(alg) |-> t])]

\* the arguments of session t's decrypt call: what encrypt made of them
SessionDecArgs(t) ==
    LET a == SessionEncArgs("aesgcm", t)
        r == gcm_crypto_aead_encrypt(a, NoFault)
    IN  [m |-> Ptr(Filled(Held(r.clen) - CRYPTO_ABYTES + Guard)),
         mlen |-> LenPtr(Poison),
         c |-> Ptr(r.c), clen |-> r.clen,
         ad |-> a.ad, adlen |-> a.adlen, npub |-> a.npub, k |-> a.k]

SessionArgs(kind, t) ==
    IF kind = "dec" THEN SessionDecArgs(t)
    ELSE SessionEncArgs(IF kind = "hiae" THEN "hiae" ELSE "aesgcm", t)

SessionStart(kind, t) ==
    LET a == SessionArgs(kind, t)
    IN  [kind |-> kind, k |-> 1, a |-> a, log |-> <<>>, overlap |-> FALSE,
         st |-> GcmStart(IF kind = "dec" THEN a.m.buf ELSE a.c.buf)]

InitSessions ==
    /\ AeadIdle /\ BackendIdle /\ VerifyIdle /\ AegisIdle
    /\ \E kinds \in [Sessions -> SessionKinds] :
           thr = [t \in Sessions |-> SessionStart(kinds[t], t)]
    /\ heap = [t \in Sessions |-> NewCtx]

SessionsFrame ==
    UNCHANGED <<va, vb, impl, pc, enc, dec, cpu, hiae_impl, ncalls, ag, build>>

\* another GCM call is between its first and its last statement
OthersInCall(t) ==
    \E u \in Sessions \ {t} :
        thr[u].kind \in {"enc", "dec"} /\ thr[u].k > 1 /\ thr[u].st.live

\* the next statement of a GCM call: the thread works on the context its ctx
\* points to; overlap records that it ran while another call was under way
GcmStep(t) ==
    /\ thr[t].kind \in {"enc", "dec"}
    /\ thr[t].st.live
    /\ LET slot == gcm_ctx_slot(t)
           in   == [thr[t].st EXCEPT !.ctx = heap[slot]]
           r    == IF thr[t].kind = "enc"
                   THEN gcm_encrypt_step(thr[t].k, in, thr[t].a, NoFault)
                   ELSE gcm_decrypt_step(thr[t].k, in, thr[t].a, NoFault)
       IN  /\ heap' = [heap EXCEPT ![slot] = r.st.ctx]
           /\ thr' = [thr EXCEPT ![t] =
                        [@ EXCEPT !.k = @ + 1,
                                  !.overlap = @ \/ OthersInCall(t),
                                  !.st = [r.st EXCEPT !.ctx = NewCtx],
                                  !.log = IF r.st.cipher_calls > in.cipher_calls
                                          THEN Append(@, r.phase) ELSE @]]
    /\ SessionsFrame

\* crypto_aead_encrypt of HiAE: its state is on the stack of HiAE_encrypt
HiaeCall(t) ==
    /\ thr[t].kind = "hiae"
    /\ thr[t].k = 1
    /\ thr' = [thr EXCEPT ![t] = [@ EXCEPT !.k = 2,
                                           !.st = hiae_crypto_aead_encrypt("hiae", thr[t].a)]]
    /\ UNCHANGED heap
    /\ SessionsFrame

\* the next call of a ROCCA-S session
RoccaStep(t) ==
    /\ thr[t].kind = "rocca"
    /\ thr[t].k <= 4
    /\ LET r == rocca_session_step(thr[t].k, thr[t].a)
       IN  thr' = [thr EXCEPT ![t] =
                     [@ EXCEPT !.k = @ + 1,
                               !.log = IF r.called THEN Append(@, r.phase) ELSE @]]
    /\ UNCHANGED heap
    /\ SessionsFrame

NextSessions == \E t \in Sessions : GcmStep(t) \/ HiaeCall(t) \/ RoccaStep(t)

SpecSessions == InitSessions /\ [][NextSessions]_vars

---------------------------------------------------------------------------
(* Bulk calls.  One caller creates a context, sets AES-128-GCM and a key   *)
(* on it, and then makes bulk calls on it one after the other; heap holds  *)
(* the context and the number of the key it was given.                     *)

MaxBulkCalls == 3

\* what the caller encrypts: with and without associated data, and with any
\* key as the k argument
BulkInputs ==
    {a \in ValidEncArgs("aesgcm") :
        /\ Small(a.mlen) \in {1, Rate + 1} /\ HighZero(a.mlen, 3)
        /\ ~a.ad.null /\ LtSmall(a.adlen, 2)}

InitBulk ==
    /\ impl = "aesgcm"
    /\ pc = "start"
    /\ enc = [op |-> "none"]
    /\ dec = [op |-> "none"]
    /\ VerifyIdle /\ AegisIdle
    /\ cpu = {} /\ hiae_impl = "unresolved" /\ ncalls = 0
    /\ thr = <<>>
    /\ \E kj \in 1..NumKeys :
           heap = [kj |-> kj, ctx |-> BulkCtx(Ptr(KeyBytes(kj)))]

BulkFrame == UNCHANGED <<impl, va, vb, cpu, hiae_impl, thr, ag, build>>

\* crypto_aead_encrypt_bulk on the caller's context
BulkEncrypt ==
    /\ ncalls < MaxBulkCalls
    /\ \E a \in BulkInputs :
          LET res == gcm_crypto_aead_encrypt_bulk(heap.ctx, a, NoFault)
          IN  /\ enc' = [op |-> "enc", args |-> a, env |-> NoFault, res |-> res]
              /\ heap' = [heap EXCEPT !.ctx = res.ctx]
    /\ dec' = [op |-> "none"]
    /\ pc' = "encrypted"
    /\ ncalls' = ncalls + 1
    /\ BulkFrame

\* crypto_aead_decrypt_bulk of what the last bulk encrypt produced, as it is
\* or with its first bit flipped
BulkDecrypt ==
    /\ ncalls < MaxBulkCalls
    /\ pc = "encrypted"
    /\ enc.res.ret = 0 /\ ~enc.res.ub
    /\ \E flip \in {0, 1} :
          LET a   == IF flip = 1 THEN [DecArgs EXCEPT !.c = FlipBit(@, 0)] ELSE DecArgs
              res == gcm_crypto_aead_decrypt_bulk(heap.ctx, a, NoFault)
          IN  /\ dec' = [op |-> "dec",
                         kind |-> IF flip = 1 THEN "tampered" ELSE "roundtrip",
                         flip |-> flip, args |-> a, env |-> NoFault, res |-> res]
              /\ heap' = [heap EXCEPT !.ctx = res.ctx]
    /\ pc' = "decrypted"
    /\ ncalls' = ncalls + 1
    /\ UNCHANGED enc
    /\ BulkFrame

NextBulk == BulkEncrypt \/ BulkDecrypt

SpecBulk == InitBulk /\ [][NextBulk]_vars

---------------------------------------------------------------------------
(* The statistics of timing.h.  A double is modelled by an integer where   *)
(* it holds a measured value or a sum of them, and by a fraction num/den   *)
(* where it holds a quotient.  A stats object s is the struct together     *)
(* with the block its values pointer refers to: block.size is the number   *)
(* of doubles the allocator gave, block.cells their content, block.freed   *)
(* says the block was given back.  ub marks an access outside the block   *)
(* or to a freed block: from then on nothing about s can be relied on.     *)

INFINITY == 1000000

\* the content of a cell that was never written
Uninit == -1

Frac(n, d) == [num |-> n, den |-> d]

Block(size) == [size |-> size, cells |-> [i \in 1..size |-> Uninit], freed |-> FALSE]

NoStats == [exists |-> FALSE]

\* rocca_stats_create(initial_capacity): env.obj says whether malloc of the
\* struct succeeds, env.values what malloc of the values gives ("block" or
\* "null"; for a size of 0 both are successful answers of malloc)
rocca_stats_create(initial_capacity, env) ==
    IF ~env.obj \/ env.values = "null" THEN NoStats
    ELSE [exists |-> TRUE,
          block |-> Block(initial_capacity),
          capacity |-> initial_capacity, count |-> 0,
          min |-> INFINITY, max |-> -INFINITY, sum |-> 0,
          mean |-> Frac(0, 1), median |-> Frac(0, 1),
          ub |-> FALSE, wrote |-> <<>>]

\* what realloc(values, n * sizeof(double)) may answer: a block, NULL with
\* the old block kept, and for n = 0 also NULL with the old block freed
ReallocAnswers(n) ==
    IF n = 0 THEN {"block", "null", "null_freed"} ELSE {"block", "null"}

\* stats->values[stats->count++] = value; stats->sum += value; min and max
\* follow.  wrote keeps the index written and the capacity at that moment.
stats_store(s, value) ==
    LET at == s.count
        in == ~s.block.freed /\ at < s.block.size
    IN  [s EXCEPT !.block.cells = IF in THEN [@ EXCEPT ![at + 1] = value] ELSE @,
                  !.ub = @ \/ ~in,
                  !.wrote = <<at, s.capacity>>,
                  !.count = @ + 1,
                  !.sum = @ + value,
                  !.min = IF value < @ THEN value ELSE @,
                  !.max = IF value > @ THEN value ELSE @]

\* rocca_stats_add(stats, value): a full buffer is doubled first; answer is
\* what realloc gives
rocca_stats_add(s, value, answer) ==
    IF s.count >= s.capacity
    THEN LET new_capacity == s.capacity * 2
         IN  IF s.block.freed THEN [s EXCEPT !.ub = TRUE]
             ELSE IF answer = "null" THEN s
             ELSE IF answer = "null_freed" THEN [s EXCEPT !.block.freed = TRUE]
             ELSE stats_store(
                     [s EXCEPT !.block =
                                  [size |-> new_capacity,
                                   cells |-> [i \in 1..new_capacity |->
                                                IF i <= s.block.size THEN s.block.cells[i]
                                                ELSE Uninit],
                                   freed |-> FALSE],
                               !.capacity = new_capacity],
                     value)
    ELSE stats_store(s, value)

\* the position v has when the first n cells are put in ascending order:
\* qsort with double_compare
RECURSIVE Insert(_, _)
Insert(sorted, v) ==
    IF sorted = <<>> THEN <<v>>
    ELSE IF v <= Head(sorted) THEN <<v>> \o sorted
    ELSE <<Head(sorted)>> \o Insert(Tail(sorted), v)

RECURSIVE Sorted(_)
Sorted(seq) == IF seq = <<>> THEN <<>> ELSE Insert(Sorted(Tail(seq)), Head(seq))

\* rocca_stats_compute(stats): mean, then the median from a sorted copy;
\* copy_ok says whether malloc of the copy succeeds
rocca_stats_compute(s, copy_ok) ==
    IF s.count = 0 THEN s
    ELSE LET s1 == [s EXCEPT !.mean = Frac(s.sum, s.count)]
         IN  IF ~copy_ok THEN s1
             ELSE IF s.block.freed \/ s.count > s.block.size
             THEN [s1 EXCEPT !.ub = TRUE]
             ELSE LET sorted == Sorted(SubSeq(s.block.cells, 1, s.count))
                  IN  IF s.count % 2 = 0
                      THEN [s1 EXCEPT !.median =
                               Frac(sorted[s.count \div 2] + sorted[(s.count \div 2) + 1], 2)]
                      ELSE [s1 EXCEPT !.median = Frac(sorted[(s.count \div 2) + 1], 1)]

\* how many initial capacities, values and calls are tried
MaxCapacity == 2
NumValues == 3
MaxAdds == 4

\* measured throughputs
StatValue(j) == 10 * j + ((j * 7) % 5)

\* heap is the stats object, the object as it was before the last call, and
\* what the last call was
InitStats ==
    /\ AeadIdle /\ BackendIdle /\ VerifyIdle /\ AegisIdle
    /\ thr = <<>>
    /\ \E cap \in 0..MaxCapacity, obj \in BOOLEAN, values \in {"block", "null"} :
          heap = [s |-> rocca_stats_create(cap, [obj |-> obj, values |-> values]),
                  before |-> NoStats,
                  op |-> "create", grew |-> FALSE, copy_ok |-> FALSE, adds |-> 0]

StatsFrame ==
    UNCHANGED <<va, vb, impl, pc, enc, dec, cpu, hiae_impl, ncalls, thr, ag, build>>

\* rocca_stats_add; grew says that the call had to grow the buffer and did
StatsAdd ==
    /\ heap.s.exists /\ ~heap.s.ub
    /\ heap.adds < MaxAdds
    /\ \E j \in 1..NumValues, answer \in {"block", "null", "null_freed"} :
          /\ answer \in ReallocAnswers(heap.s.capacity * 2)
          /\ heap.s.count < heap.s.capacity => answer = "block"
          /\ heap' = [s |-> rocca_stats_add(heap.s, StatValue(j), answer),
                      before |-> heap.s,
                      op |-> IF heap.s.count >= heap.s.capacity /\ answer # "block"
                             THEN "add_failed" ELSE "add",
                      grew |-> heap.s.count >= heap.s.capacity /\ answer = "block",
                      copy_ok |-> FALSE,
                      adds |-> heap.adds + 1]
    /\ StatsFrame

\* rocca_stats_compute
StatsCompute ==
    /\ heap.s.exists /\ ~heap.s.ub
    /\ heap.op # "compute"
    /\ \E copy_ok \in BOOLEAN :
          heap' = [heap EXCEPT !.s = rocca_stats_compute(heap.s, copy_ok),
                               !.before = heap.s,
                               !.op = "compute", !.grew = FALSE,
                               !.copy_ok = copy_ok]
    /\ StatsFrame

NextStats == StatsAdd \/ StatsCompute

SpecStats == InitStats /\ [][NextStats]_vars

---------------------------------------------------------------------------
(* calculate_iterations.  A time is a double m * 2^-e seconds, written     *)
(* [m |-> m, e |-> e]; the times tried have e = 0, e = TickExp (eighths of *)
(* a second, the unit of the benchmark model's clock) and e = TinyExp (a   *)
(* unit so small that iterations per second no longer fit a size_t).  A    *)
(* size_t that only gets compared with 10 and 100000 is cut off at Huge.   *)

COMPUTATION_TIME == 1
TickExp == 3
TinyExp == 70
SizeBits == 64
Huge == 2^30

\* (double) warmup_iterations / warmup_time * COMPUTATION_TIME does not fit a
\* size_t: it * 2^e / m >= 2^64
OutOfRange(warmup_time, warmup_iterations) ==
    /\ warmup_time.e > SizeBits
    /\ warmup_iterations * 2^(warmup_time.e - SizeBits) >= warmup_time.m

\* (size_t) (iterations_per_second * COMPUTATION_TIME) where the product fits
Truncated(warmup_time, warmup_iterations) ==
    IF warmup_time.e > SizeBits THEN Huge
    ELSE LET q == (warmup_iterations * 2^warmup_time.e * COMPUTATION_TIME)
                      \div warmup_time.m
         IN  IF q > Huge THEN Huge ELSE q

\* what the conversion of a double outside the range of size_t gives: the
\* behaviour is undefined; builds give 0 or a value with the top bit set
CastAnswers == {"zero", "top"}

\* calculate_iterations(warmup_time, warmup_iterations); cast is the answer of
\* an out-of-range conversion
calculate_iterations(warmup_time, warmup_iterations, cast) ==
    IF warmup_time.m <= 0 \/ warmup_iterations = 0 THEN 100
    ELSE LET converted == IF OutOfRange(warmup_time, warmup_iterations)
                          THEN (IF cast = "zero" THEN 0 ELSE Huge)
                          ELSE Truncated(warmup_time, warmup_iterations)
             raised    == IF converted < 10 THEN 10 ELSE converted
         IN  IF raised > 100000 THEN 100000 ELSE raised

\* the largest m and the number of iteration counts tried
MaxTime == 4
NumCounts == 6

\* iteration counts: 0, 1, 7, 49, ... 
Count(j) == IF j = 0 THEN 0 ELSE 7 ^ (j - 1)

IterationInputs ==
    {[warmup_time |-> [m |-> m, e |-> e], warmup_iterations |-> Count(j), cast |-> cast] :
        m \in (-1)..MaxTime, e \in {0, TickExp, TinyExp}, j \in 0..NumCounts,
        cast \in CastAnswers}

\* thr is the caller of calculate_iterations: its arguments and, after the
\* call, the value returned
InitIterations ==
    /\ AeadIdle /\ BackendIdle /\ VerifyIdle /\ AegisIdle
    /\ heap = <<>>
    /\ \E in \in IterationInputs : thr = [pc |-> "call", in |-> in, ret |-> 0]

Calculate ==
    /\ thr.pc = "call"
    /\ thr' = [thr EXCEPT !.pc = "returned",
                          !.ret = calculate_iterations(thr.in.warmup_time,
                                                       thr.in.warmup_iterations,
                                                       thr.in.cast)]
    /\ UNCHANGED <<va, vb, impl, pc, enc, dec, cpu, hiae_impl, ncalls, heap, ag, build>>

NextIterations == Calculate

SpecIterations == InitIterations /\ [][NextIterations]_vars

---------------------------------------------------------------------------
(* The speed tests: speed_test_encode_work, speed_test_decode_work and     *)
(* speed_test_ad_work with the caller that prints and destroys the result. *)
(* thr is the running test (its position, locals, timer and the clock, in  *)
(* eighths of a second), heap the buffers it allocated and the statistics. *)

\* 0.25 s in eighths of a second
WARMUP_TIME == 2
NUM_MEASUREMENTS == 5

rocca_timer_start(now) == [start_time |-> now, end_time |-> now]

rocca_timer_stop(timer, now) == [timer EXCEPT !.end_time = now]

rocca_timer_elapsed_seconds(timer) == timer.end_time - timer.start_time

\* the test that ends the do-while of the warm-up
WarmupDone_first_tick(timer) == rocca_timer_elapsed_seconds(timer) > 0

WarmupDone(timer) == ~(rocca_timer_elapsed_seconds(timer) < WARMUP_TIME)

\* a pointer variable: NULL, an allocation, or an allocation already freed;
\* frees counts the calls of free on it, stale says it was used after that
NullBuffer == [ptr |-> "null", frees |-> 0, stale |-> FALSE]

rocca_aligned_alloc(ok) == IF ok THEN [NullBuffer EXCEPT !.ptr = "live"] ELSE NullBuffer

rocca_aligned_free_keep(b) == b

rocca_aligned_free(b) ==
    IF b.ptr = "null" THEN b ELSE [b EXCEPT !.ptr = "freed", !.frees = @ + 1]

\* a read or write through the pointer
Touch(b) == [b EXCEPT !.stale = @ \/ b.ptr /= "live"]

\* the buffers a test works on: ad only when there is associated data, dec
\* only when decrypting
Needs(t) ==
    (IF t.kind = "ad" \/ t.aead THEN {"ad"} ELSE {})
        \cup (IF t.kind = "ad" THEN {} ELSE {"msg", "ct"})
        \cup (IF t.kind = "decode" THEN {"dec"} ELSE {})

Buffers == {"ad", "msg", "ct", "dec"}

\* one encryption, decryption or MAC over the buffers
Work(h, t) == [n \in DOMAIN h |-> IF n \in Needs(t) THEN Touch(h[n]) ELSE h[n]]

\* the frees before a return: ad, msg, ct and, when decrypting, dec; ad alone in
\* speed_test_ad_work
FreeBuffers(h, t) ==
    LET freed == IF t.kind = "ad" THEN {"ad"}
                 ELSE IF t.kind = "decode" THEN Buffers ELSE {"ad", "msg", "ct"}
    IN  [n \in DOMAIN h |-> IF n \in freed THEN rocca_aligned_free(h[n]) ELSE h[n]]

\* rocca_stats_destroy(stats): free(stats->values); free(stats) unless NULL
rocca_stats_destroy(h, result) ==
    IF result = "null" THEN h
    ELSE [h EXCEPT !.values = rocca_aligned_free(@), !.obj = rocca_aligned_free(@)]

\* the answers of the clock between two readings, the iterations in a row in
\* which it may stand still, and the message lengths
MaxTick == 1
MaxStill == 1
NumLens == 1

TestLen(j) == 16 * 4 ^ (j - 1)

BenchStart(kind, aead, len) ==
    [kind |-> kind, aead |-> aead, len |-> len, pc |-> "ad_alloc", now |-> 0,
     timer |-> rocca_timer_start(0), starts |-> 0, warmup_iterations |-> 0,
     still |-> 0, prev |-> 0, warmup_time |-> 0, iterations_per_measurement |-> 0,
     i |-> 0, ran |-> <<>>, result |-> "null"]

InitBench ==
    /\ AeadIdle /\ BackendIdle /\ VerifyIdle /\ AegisIdle
    /\ \E kind \in {"encode", "decode", "ad"}, aead \in BOOLEAN, j \in 1..NumLens :
          /\ kind = "ad" => aead
          /\ thr = BenchStart(kind, aead, TestLen(j))
    /\ heap = [ad |-> NullBuffer, msg |-> NullBuffer, ct |-> NullBuffer,
               dec |-> NullBuffer, obj |-> NullBuffer, values |-> NullBuffer,
               stats |-> NoStats]

BenchFrame == UNCHANGED <<va, vb, impl, pc, enc, dec, cpu, hiae_impl, ncalls, ag, build>>

\* ad = aligned_alloc(16, ad_len) when ad_len > 0; NULL: return
BenchAllocAd ==
    /\ thr.pc = "ad_alloc"
    /\ \E ok \in BOOLEAN :
          IF "ad" \in Needs(thr)
          THEN /\ heap' = [heap EXCEPT !.ad = rocca_aligned_alloc(ok)]
               /\ thr' = [thr EXCEPT !.pc = IF ~ok THEN "returned"
                                            ELSE IF thr.kind = "ad" THEN "warmup_start"
                                            ELSE "buf_alloc"]
          ELSE /\ ok
               /\ heap' = heap
               /\ thr' = [thr EXCEPT !.pc = "buf_alloc"]
    /\ BenchFrame

\* msg, ct (and dec) are allocated; if one is NULL all are freed and the test
\* returns; speed_test_decode_work encrypts once before the warm-up
BenchAllocBufs ==
    /\ thr.pc = "buf_alloc"
    /\ \E okm \in BOOLEAN, okc \in BOOLEAN, okd \in BOOLEAN :
          /\ thr.kind /= "decode" => okd
          /\ LET h1 == [heap EXCEPT !.msg = rocca_aligned_alloc(okm),
                                    !.ct = rocca_aligned_alloc(okc),
                                    !.dec = IF thr.kind = "decode"
                                            THEN rocca_aligned_alloc(okd) ELSE @]
             IN  IF okm /\ okc /\ okd
                 THEN /\ heap' = IF thr.kind = "decode"
                                 THEN [n \in DOMAIN h1 |->
                                         IF n \in Needs(thr) \ {"dec"} THEN Touch(h1[n])
                                         ELSE h1[n]]
                                 ELSE h1
                      /\ thr' = [thr EXCEPT !.pc = "warmup_start"]
                 ELSE /\ heap' = FreeBuffers(h1, thr)
                      /\ thr' = [thr EXCEPT !.pc = "returned"]
    /\ BenchFrame

\* rocca_timer_start(&warmup_timer); warmup_iterations = 0
BenchTimerStart ==
    /\ thr.pc = "warmup_start"
    /\ thr' = [thr EXCEPT !.pc = "warmup", !.timer = rocca_timer_start(thr.now),
                          !.starts = @ + 1, !.warmup_iterations = 0]
    /\ heap' = heap
    /\ BenchFrame

\* one pass of the do-while: the work, warmup_iterations++, rocca_timer_stop
\* and the test; the clock moved by dt since the last reading
BenchWarmup ==
    /\ thr.pc = "warmup"
    /\ \E dt \in 0..MaxTick :
          /\ dt = 0 => thr.still < MaxStill
          /\ LET now   == thr.now + dt
                 timer == rocca_timer_stop(thr.timer, now)
             IN  thr' = [thr EXCEPT !.now = now, !.timer = timer,
                                    !.warmup_iterations = @ + 1,
                                    !.still = IF dt = 0 THEN @ + 1 ELSE 0,
                                    !.prev = rocca_timer_elapsed_seconds(thr.timer),
                                    !.pc = IF WarmupDone(timer) THEN "calc" ELSE "warmup"]
    /\ heap' = Work(heap, thr)
    /\ BenchFrame

\* warmup_time, calculate_iterations, rocca_stats_create(NUM_MEASUREMENTS);
\* NULL: the buffers are freed and the test returns
BenchCalc ==
    /\ thr.pc = "calc"
    /\ \E obj \in BOOLEAN, values \in {"block", "null"}, cast \in CastAnswers :
          LET warmup_time == rocca_timer_elapsed_seconds(thr.timer)
              stats == rocca_stats_create(NUM_MEASUREMENTS, [obj |-> obj, values |-> values])
              t1 == [thr EXCEPT !.warmup_time = warmup_time,
                                !.iterations_per_measurement =
                                    calculate_iterations([m |-> warmup_time, e |-> TickExp],
                                                         thr.warmup_iterations, cast)]
          IN  /\ ~obj => values = "null"
              /\ IF stats.exists
                 THEN /\ heap' = [heap EXCEPT !.stats = stats,
                                              !.obj = rocca_aligned_alloc(TRUE),
                                              !.values = rocca_aligned_alloc(TRUE)]
                      /\ thr' = [t1 EXCEPT !.pc = "measure", !.i = 0, !.result = "stats"]
                 ELSE /\ heap' = FreeBuffers(heap, thr)
                      /\ thr' = [t1 EXCEPT !.pc = "returned"]
    /\ BenchFrame

\* one measurement: timer start, iterations_per_measurement times the work,
\* timer stop, throughput = iterations * len / elapsed, rocca_stats_add
BenchMeasure ==
    /\ thr.pc = "measure"
    /\ thr.i < NUM_MEASUREMENTS
    /\ \E dt \in 0..MaxTick :
          LET timer   == rocca_timer_stop(rocca_timer_start(thr.now), thr.now + dt)
              elapsed == rocca_timer_elapsed_seconds(timer)
              throughput ==
                  IF elapsed = 0 THEN INFINITY
                  ELSE (thr.iterations_per_measurement * thr.len * 2^TickExp) \div elapsed
              h1 == Work(heap, thr)
          IN  /\ thr' = [thr EXCEPT !.now = @ + dt, !.timer = timer, !.i = @ + 1,
                                    !.ran = Append(@, thr.iterations_per_measurement),
                                    !.pc = IF thr.i + 1 < NUM_MEASUREMENTS
                                           THEN "measure" ELSE "compute"]
              /\ heap' = [h1 EXCEPT !.stats = rocca_stats_add(@, throughput, "null"),
                                    !.obj = Touch(@), !.values = Touch(@)]
    /\ BenchFrame

\* rocca_stats_compute, mbps and gbps from the median, the frees, return
BenchCompute ==
    /\ thr.pc = "compute"
    /\ \E copy_ok \in BOOLEAN :
          heap' = [FreeBuffers(heap, thr) EXCEPT
                      !.stats = rocca_stats_compute(@, copy_ok),
                      !.obj = Touch(@), !.values = Touch(@)]
    /\ thr' = [thr EXCEPT !.pc = "returned"]
    /\ BenchFrame

\* print_result(operation, len, &result): reads result->stats unless NULL
BenchPrint ==
    /\ thr.pc = "returned"
    /\ heap' = IF thr.result = "null" THEN heap ELSE [heap EXCEPT !.obj = Touch(@)]
    /\ thr' = [thr EXCEPT !.pc = "printed"]
    /\ BenchFrame

\* rocca_stats_destroy(result.stats)
BenchDestroy ==
    /\ thr.pc = "printed"
    /\ heap' = rocca_stats_destroy(heap, thr.result)
    /\ thr' = [thr EXCEPT !.pc = "done"]
    /\ BenchFrame

NextBench ==
    \/ BenchAllocAd
    \/ BenchAllocBufs
    \/ BenchTimerStart
    \/ BenchWarmup
    \/ BenchCalc
    \/ BenchMeasure
    \/ BenchCompute
    \/ BenchPrint
    \/ BenchDestroy

SpecBench == InitBench /\ [][NextBench]_vars

\* the test is one sequential thread that keeps running
SpecBenchLive == SpecBench /\ WF_vars(NextBench)

---------------------------------------------------------------------------
(* The claims                                                              *)

EncCalled == pc \in {"encrypted", "decrypted"}

DecCalled == pc = "decrypted"

\* the first n bytes of a buffer
First(buf, n) == IF n = 0 THEN <<>> ELSE SubSeq(buf, 1, n)

\* C1: round trip: for every key, nonce, associated data and plaintext (of
\* length 0, 1, rate-1, rate, rate+1, 2*rate or any other), encrypt returns 0,
\* and decrypt of its output with the same key, nonce and associated data
\* returns 0, reports the plaintext's length and yields the plaintext's bytes.
C1_RoundTrip ==
    /\ (EncCalled /\ EncRequired(enc.args) /\ enc.env = NoFault) =>
          enc.res.ret = 0 /\ ~enc.res.ub
    /\ (DecCalled /\ dec.kind = "roundtrip" /\ dec.env = NoFault) =>
          /\ dec.res.ret = 0 /\ ~dec.res.ub
          /\ dec.res.mlen = enc.args.mlen
          /\ First(dec.res.m, Held(enc.args.mlen))
                = First(enc.args.m.buf, Held(enc.args.mlen))

\* C2: tamper detection: with any single bit of the ciphertext part or of the
\* tag part of encrypt's output flipped, decrypt (same key, nonce, associated
\* data) returns a non-zero result.
C2_TamperDetected ==
    (DecCalled /\ dec.kind = "tampered") => dec.res.ret # 0 /\ ~dec.res.ub

C2_Witness ==
    /\ DecCalled /\ dec.kind = "tampered" /\ impl = "aesgcm"
    /\ Held(dec.args.clen) = 2 * Rate + CRYPTO_ABYTES
    /\ dec.flip = 8 * Held(dec.args.clen) - 1
    /\ dec.res.ret = -1

\* C3: no plaintext release: whenever decrypt fails because the tag does not
\* match, the output buffer m is byte for byte what it was before the call.
C3_NoPlaintextOnFailure ==
    (DecCalled /\ dec.kind = "tampered" /\ dec.res.ret # 0) =>
        dec.res.m = dec.args.m.buf

\* C4: layout of the HiAE and HiAEx4 wrappers: encrypt writes the mlen
\* ciphertext bytes at c[0..mlen) and the tag at c[mlen..mlen+16), nothing
\* beyond, and sets *clen = mlen + 16; decrypt takes the tag from
\* c[clen-16..clen) and the ciphertext from c[0..clen-16) and reports
\* *mlen = clen - 16, so that it accepts what encrypt wrote.
C4_HiaeLayout ==
    impl \in {"hiae", "hiaex4"} =>
        /\ (EncCalled /\ enc.res.ret = 0) =>
              LET a == enc.args
                  n == Small(a.mlen)
                  r == HiAE_encrypt(impl, a.k.buf, a.npub.buf, First(a.m.buf, n),
                                    First(a.ad.buf, Small(a.adlen)))
              IN  /\ ~enc.res.ub
                  /\ First(enc.res.c, n) = r.ct
                  /\ SubSeq(enc.res.c, n + 1, n + CRYPTO_ABYTES) = r.tag
                  /\ \A j \in (n + CRYPTO_ABYTES + 1)..Len(enc.res.c) :
                        enc.res.c[j] = a.c.buf[j]
                  /\ Len(enc.res.c) = Len(a.c.buf)
                  /\ enc.res.clen = U64(n + CRYPTO_ABYTES)
        /\ (DecCalled /\ dec.kind = "roundtrip") =>
              /\ dec.res.ret = 0 /\ ~dec.res.ub
              /\ dec.res.mlen = U64(Small(dec.args.clen) - CRYPTO_ABYTES)
              /\ dec.res.mlen = enc.args.mlen
              /\ First(dec.res.m, Small(enc.args.mlen))
                    = First(enc.args.m.buf, Small(enc.args.mlen))
        /\ (DecCalled /\ dec.kind = "tampered") => dec.res.ret # 0

C4_Witness ==
    /\ impl = "hiaex4" /\ DecCalled /\ dec.kind = "roundtrip"
    /\ Small(enc.args.mlen) = Rate + 1
    /\ enc.res.clen = U64(Rate + 1 + CRYPTO_ABYTES)
    /\ dec.res.ret = 0

\* C5: zero lengths: encrypt with mlen = 0 (m may be NULL) succeeds, runs the
\* finalization and reports *clen = 16, the tag over the empty message;
\* encrypt with adlen = 0 (ad may be NULL) succeeds; decrypt of a 16-byte
\* output succeeds and reports a message length of 0.
C5_ZeroLength ==
    /\ (EncCalled /\ EncRequired(enc.args) /\ enc.env = NoFault
          /\ IsZero(enc.args.mlen)) =>
          LET a == enc.args
          IN  /\ enc.res.ret = 0 /\ ~enc.res.ub
              /\ enc.res.cipher_calls > 0
              /\ enc.res.clen = U64(CRYPTO_ABYTES)
              /\ First(enc.res.c, CRYPTO_ABYTES)
                    = TagOf(impl, a.k.buf, a.npub.buf,
                            First(a.ad.buf, Small(a.adlen)), <<>>)
    /\ (EncCalled /\ EncRequired(enc.args) /\ enc.env = NoFault
          /\ IsZero(enc.args.adlen)) => enc.res.ret = 0 /\ ~enc.res.ub
    /\ (DecCalled /\ dec.kind = "roundtrip" /\ dec.env = NoFault
          /\ IsZero(enc.args.mlen)) =>
          /\ dec.res.ret = 0 /\ ~dec.res.ub
          /\ dec.res.mlen = U64(0)
          /\ dec.res.m = dec.args.m.buf

C5_Witness ==
    /\ DecCalled /\ dec.kind = "roundtrip" /\ dec.env = NoFault
    /\ enc.args.m.null /\ IsZero(enc.args.mlen)
    /\ enc.args.ad.null /\ IsZero(enc.args.adlen)
    /\ enc.res.clen = U64(CRYPTO_ABYTES)
    /\ dec.res.ret = 0 /\ dec.res.mlen = U64(0)

\* C8: invalid input is rejected before any work: with a required buffer
\* missing (NULL key, nonce or output, NULL m with a message, NULL ad with
\* associated data) every implementation returns an error, without having
\* invoked the cipher and without having written the output buffer or the
\* output length.
C8_RejectedBeforeWork ==
    /\ (EncCalled /\ ~EncRequired(enc.args)) =>
          /\ enc.res.ret # 0 /\ ~enc.res.ub
          /\ enc.res.cipher_calls = 0
          /\ enc.res.c = enc.args.c.buf
          /\ enc.res.clen = enc.args.clen.val
    /\ (DecCalled /\ ~DecRequired(dec.args)) =>
          /\ dec.res.ret # 0 /\ ~dec.res.ub
          /\ dec.res.cipher_calls = 0
          /\ dec.res.m = dec.args.m.buf
          /\ dec.res.mlen = dec.args.mlen.val

\* C9: errors are explicit and the output length is written only on success:
\* every call returns 0 or a non-zero error as a defined result, and *clen
\* (encrypt) and *mlen (decrypt) are assigned exactly when the call returns 0.
C9_ExplicitErrors ==
    /\ EncCalled =>
          /\ ~enc.res.ub
          /\ ~enc.args.clen.null =>
                ((enc.res.clen # enc.args.clen.val) <=> (enc.res.ret = 0))
    /\ DecCalled =>
          /\ ~dec.res.ub
          /\ ~dec.args.mlen.null =>
                ((dec.res.mlen # dec.args.mlen.val) <=> (dec.res.ret = 0))

\* C10: backend resolution happens once per process: once a call has resolved
\* the backend, no later call changes it; resolving again yields the same
\* backend, the one the CPU's features select, and the features a process
\* sees do not change.
C10_ResolvedOnce ==
    [][/\ hiae_impl # "unresolved" => hiae_impl' = hiae_impl
       /\ hiae_impl' # "unresolved" =>
             /\ hiae_impl' = ResolveBackend(cpu)
             /\ hiae_init_dispatch(hiae_impl', cpu') = hiae_impl'
       /\ (enc'.res.cipher_calls > 0 /\ enc' # enc) => hiae_impl' # "unresolved"
       /\ cpu' = cpu]_vars

C10_Witness ==
    /\ ncalls = MaxCalls /\ DecCalled
    /\ cpu = {"vaes", "avx512f", "aesni"}
    /\ hiae_impl = "vaes_avx512"
    /\ dec.res.ret = 0

SameBytes(r) == \A j \in 1..r.n : r.x[j] = r.y[j]

RECURSIVE OrOfXors(_, _)
OrOfXors(r, j) ==
    IF j = 0 THEN 0 ELSE BitOr(OrOfXors(r, j - 1), Xor8(r.x[j], r.y[j]), 8)

\* C6: crypto_verify_16/32 returns 0 exactly when all 16 (32) bytes are equal
\* and -1 otherwise; the value is derived from the OR of all byte XORs, which
\* stays within 0..255.
C6_VerifyResult ==
    \A r \in {va, vb} :
        r.pc = "done" =>
            /\ r.ret \in {0, -1}
            /\ (r.ret = 0) <=> SameBytes(r)
            /\ r.differentbits = U32(OrOfXors(r, r.n))
            /\ Small(r.differentbits) \in 0..255

C6_Witness ==
    /\ va.pc = "done" /\ va.n = 16 /\ va.ret = -1 /\ va.x[16] # va.y[16]
    /\ vb.pc = "done" /\ vb.ret = 0

\* C7: two runs on any two pairs of inputs take the same steps: they are at
\* the same position after every step, visit positions 0..n-1 once each in
\* ascending order, and where the inputs differ changes neither the number
\* of steps nor the value returned.
C7_NoEarlyExit ==
    /\ va.pc = vb.pc
    /\ va.i = vb.i
    /\ va.visited = vb.visited
    /\ va.pc = "done" =>
          /\ va.visited = [j \in 1..va.n |-> j - 1]
          /\ (~SameBytes(va) /\ ~SameBytes(vb)) => va.ret = vb.ret

C7_Witness ==
    /\ va.pc = "done" /\ vb.pc = "done"
    /\ va.x[1] # va.y[1]
    /\ vb.x[1] = vb.y[1] /\ vb.x[vb.n] # vb.y[vb.n]

\* C11: concurrent first use is race-free: in every interleaving, a thread
\* that has read a resolved handle finds the selection behind it complete,
\* and all threads run their call on the same backend, the one resolved for
\* the CPU.
C11_FirstUseRaceFree ==
    \A t \in Threads :
        /\ thr[t].seen # "unresolved" =>
              /\ thr[t].seen = ResolveBackend(cpu)
              /\ heap.enc = thr[t].seen /\ heap.dec = thr[t].seen
        /\ thr[t].pc = "done" =>
              /\ thr[t].used.enc = ResolveBackend(cpu)
              /\ thr[t].used.dec = ResolveBackend(cpu)
              /\ \A u \in Threads : thr[u].pc = "done" => thr[u].used = thr[t].used

C11_Witness ==
    /\ \A t \in Threads : thr[t].pc = "done"
    /\ \E t \in Threads : thr[t].k > Len(hiae_init_order)
    /\ \E t \in Threads : thr[t].k = 0
    /\ "vaes" \in cpu /\ "avx512f" \in cpu
    /\ thr[1].used.enc = "vaes_avx512"

\* the CPU features a backend's instructions need
Required(b) ==
    CASE b = "vaes_avx512" -> {"vaes", "avx512f"}
      [] b = "aesni"       -> {"aesni"}
      [] b = "arm_crypto"  -> {"armcrypto"}
      [] b = "software"    -> {}

HardwareBackends == {"vaes_avx512", "aesni", "arm_crypto"}

C13_FailsClosed ==
    [][ /\ build.status = "error" => build' = build /\ ag' = ag
        /\ build'.status = "error" => build.arch # "x86_64"
        /\ build'.status = "ok" => build.arch = "x86_64"
        /\ (ag' # ag \/ build'.served > build.served) =>
               build.arch = "x86_64" /\ build.status = "ok" ]_vars

C13_Witness ==
    /\ build.arch = "aarch64"
    /\ build.status = "error"
    /\ build.served = 0
    /\ ag.a.pc = UpdateEntry

\* lane i (0..7) of the state a run was started from
Before(i) == ag.state0[i + 1]

\* lane i (0..7) of the state of run r
After(r, i) == r.mem[Lane(i)]

\* the update of the 128-bit construction on eight 128-bit lanes s (numbered
\* from 1), all lanes computed from the old state at once
Update128(s, d1, d2, i) ==
    LET round == AesRound(s[IF i = 0 THEN 8 ELSE i], s[i + 1])
        d == IF i = 0 THEN d1 ELSE d2
    IN  IF i \in {0, 4} THEN [j \in 1..16 |-> Xor8(round[j], d[j])] ELSE round

C16_PureUpdate ==
    [][ /\ \A r \in {"a", "b"} :
               /\ ag'[r].mem[1] = ag[r].mem[1]
               /\ ag'[r].mem[10] = ag[r].mem[10]
               /\ Len(ag'[r].mem) = Len(ag[r].mem)
               /\ ag'[r].d1 = ag[r].d1 /\ ag'[r].d2 = ag[r].d2
        /\ (ag'.a.pc = UpdateReturn /\ ag'.b.pc = UpdateReturn) =>
               \A i \in 0..7 : After(ag'.a, i) = After(ag'.b, i) ]_vars

C16_Witness ==
    /\ ag.a.pc = UpdateReturn /\ ag.b.pc = UpdateReturn
    /\ ag.a.mem[1] # ag.b.mem[1]
    /\ ag.a.mem[10] # ag.b.mem[10]
    /\ \A i \in 0..7 : After(ag.a, i) = After(ag.b, i)
    /\ After(ag.a, 0) # Before(0)

\* the simultaneous definition: lane i from the old lane i and its old
\* neighbour, then d1 into lane 0 and d2 into lane 4
Simultaneous(i) ==
    LET round == AES_ENC(Before(IF i = 0 THEN 7 ELSE i - 1), Before(i))
    IN  IF i = 0 THEN AES_BLOCK_XOR(round, ag.a.d1)
        ELSE IF i = 4 THEN AES_BLOCK_XOR(round, ag.a.d2)
        ELSE round

\* C18: lane wiring.  After the call lane i is AES_ENC(S[i-1], S[i]) of the
\* state S before the call (lane 0 takes S[7]), lane 0 further XORed with d1
\* and lane 4 with d2: the in-place execution equals the simultaneous
\* definition.
C18_LaneWiring ==
    ag.a.pc = UpdateReturn => \A i \in 0..7 : After(ag.a, i) = Simultaneous(i)

C18_Witness ==
    /\ ag.a.pc = UpdateReturn
    /\ ag.a.tmp = Before(7)
    /\ After(ag.a, 7) # Before(7)
    /\ After(ag.a, 0) = AES_BLOCK_XOR(AES_ENC(Before(7), Before(0)), ag.a.d1)
    /\ After(ag.a, 0) # AES_BLOCK_XOR(AES_ENC(After(ag.a, 7), Before(0)), ag.a.d1)
    /\ After(ag.a, 4) # AES_ENC(Before(3), Before(4))

\* session t's call has returned
Returned(t) ==
    IF thr[t].kind \in {"enc", "dec"} THEN ~thr[t].st.live
    ELSE IF thr[t].kind = "hiae" THEN thr[t].k = 2
    ELSE thr[t].k > 4

\* what session t's call gives when nothing else runs
Alone(t) ==
    CASE thr[t].kind = "enc"  -> gcm_crypto_aead_encrypt(thr[t].a, NoFault)
      [] thr[t].kind = "dec"  -> gcm_crypto_aead_decrypt(thr[t].a, NoFault)
      [] thr[t].kind = "hiae" -> hiae_crypto_aead_encrypt("hiae", thr[t].a)

\* what session t's call gave
Outcome(t) ==
    CASE thr[t].kind = "enc"  -> gcm_encrypt_result(thr[t].st, thr[t].a)
      [] thr[t].kind = "dec"  -> gcm_decrypt_result(thr[t].st, thr[t].a)
      [] thr[t].kind = "hiae" -> thr[t].st

\* C15: no cross-talk between concurrent sessions.  Under every interleaving
\* of the calls' statements, a call that has returned succeeded and left
\* exactly the return value, output bytes and output length it leaves when
\* it runs alone.
C15_NoCrossTalk ==
    \A t \in Sessions :
        (thr[t].kind # "rocca" /\ Returned(t)) =>
            /\ Outcome(t) = Alone(t)
            /\ Outcome(t).ret = 0 /\ ~Outcome(t).ub

C15_Witness ==
    /\ thr[1].kind = "enc" /\ thr[2].kind = "dec"
    /\ Returned(1) /\ Returned(2)
    /\ thr[1].overlap /\ thr[2].overlap
    /\ heap[1].key # heap[2].key
    /\ Outcome(1).ret = 0 /\ Outcome(2).ret = 0
    /\ Outcome(1).c # Alone(2).m

\* the place of a phase in the order of an AEAD session
Rank(phase) ==
    CASE phase \in {"new", "cipher", "ivlen", "init"} -> 1
      [] phase = "ad"     -> 2
      [] phase = "msg"    -> 3
      [] phase = "settag" -> 4
      [] phase = "final"  -> 5
      [] phase = "tag"    -> 6

Phases(t) == {thr[t].log[i] : i \in DOMAIN thr[t].log}

\* C17: phase ordering.  In every session the cipher is reached in the order
\* initialise, associated data (if any), message, finalise, tag: nothing is
\* absorbed as associated data after the message, the tag is read only after
\* finalisation, decryption sets the expected tag before the final check,
\* and a session that ended well went through every phase.
C17_PhaseOrder ==
    \A t \in Sessions :
        /\ \A i, j \in DOMAIN thr[t].log :
               i < j => /\ Rank(thr[t].log[i]) <= Rank(thr[t].log[j])
                        /\ Rank(thr[t].log[i]) > 1 =>
                               Rank(thr[t].log[i]) < Rank(thr[t].log[j])
        /\ thr[t].log # <<>> => thr[t].log[1] \in {"new", "init"}
        /\ (thr[t].kind = "enc" /\ Returned(t) /\ thr[t].st.ret = 0) =>
               {"init", "msg", "final", "tag"} \subseteq Phases(t)
        /\ (thr[t].kind = "dec" /\ Returned(t) /\ thr[t].st.ret = 0) =>
               {"init", "msg", "settag", "final"} \subseteq Phases(t)
        /\ (thr[t].kind = "rocca" /\ Returned(t)) =>
               {"init", "msg", "tag"} \subseteq Phases(t)
        /\ (~IsZero(thr[t].a.adlen) /\ "msg" \in Phases(t)) => "ad" \in Phases(t)

C17_Witness ==
    /\ thr[1].kind = "enc" /\ Returned(1) /\ thr[1].st.ret = 0
    /\ thr[1].log = <<"new", "cipher", "ivlen", "init", "ad", "msg", "final", "tag">>
    /\ thr[2].kind = "dec" /\ Returned(2) /\ thr[2].st.ret = 0
    /\ thr[2].log = <<"new", "cipher", "ivlen", "init", "msg", "settag", "final">>

\* C19: ciphertext length check.  crypto_aead_decrypt of HiAE, of HiAEx4 and
\* of the AES-GCM wrapper, and crypto_aead_decrypt_bulk, called with
\* clen < 16 return -1 as a defined result, without having invoked the
\* cipher or created a context and with m and *mlen as they were: clen - 16
\* is not computed for such a clen.
C19_ShortRejected ==
    (DecCalled /\ LtSmall(dec.args.clen, CRYPTO_ABYTES)) =>
        /\ dec.res.ret = -1 /\ ~dec.res.ub
        /\ dec.res.cipher_calls = 0
        /\ dec.res.ctx_new = 0
        /\ dec.res.m = dec.args.m.buf
        /\ dec.res.mlen = dec.args.mlen.val

C19_Witness ==
    /\ DecCalled /\ impl = "aesgcm" /\ dec.kind = "bulkshort"
    /\ dec.args.clen = U64(CRYPTO_ABYTES - 1)
    /\ ~HighZero(SubBorrow(dec.args.clen, CRYPTO_ABYTES), 2)
    /\ dec.res.ret = -1
    /\ dec.res.m = dec.args.m.buf

\* C20: length arithmetic of the AES-GCM wrapper.  A successful encrypt
\* reports *clen = mlen + 16 and a successful decrypt *mlen = clen - 16, and
\* mlen, adlen and clen - 16 survive the conversion to the int the cipher
\* takes.
C20_LengthArithmetic ==
    impl = "aesgcm" =>
        /\ (EncCalled /\ EncRequired(enc.args) /\ enc.res.ret = 0 /\ ~enc.res.ub) =>
              /\ enc.res.clen = AddCarry(enc.args.mlen, CRYPTO_ABYTES)
              /\ IntToU64(ToInt32(enc.args.mlen)) = enc.args.mlen
              /\ IntToU64(ToInt32(enc.args.adlen)) = enc.args.adlen
        /\ (DecCalled /\ DecRequired(dec.args) /\ dec.res.ret = 0 /\ ~dec.res.ub) =>
              /\ dec.res.mlen = SubBorrow(dec.args.clen, CRYPTO_ABYTES)
              /\ IntToU64(ToInt32(dec.res.mlen)) = dec.res.mlen
              /\ IntToU64(ToInt32(dec.args.adlen)) = dec.args.adlen

\* the arguments a with the key of the caller's context as k
WithContextKey(a) == [a EXCEPT !.k = Ptr(KeyBytes(heap.kj))]

\* the fields of a call's effects that the caller can see
Visible(res, out) == [ret |-> res.ret, ub |-> res.ub, out |-> out]

\* C21: bulk calls reuse the key of the context.  Whatever k a bulk call is
\* given, and however many bulk calls the context has served, the call
\* returns what the one-shot call with the context's key returns and leaves
\* the same output bytes and output length; it creates and frees no
\* context, and the context keeps its key.
C21_BulkMatchesOneShot ==
    /\ pc \in {"encrypted", "decrypted"} =>
          LET one == gcm_crypto_aead_encrypt(WithContextKey(enc.args), NoFault)
          IN  /\ Visible(enc.res, <<enc.res.c, enc.res.clen>>)
                   = Visible(one, <<one.c, one.clen>>)
              /\ enc.res.ret = 0
              /\ enc.res.ctx_new = 0 /\ enc.res.ctx_free = 0
    /\ pc = "decrypted" =>
          LET one == gcm_crypto_aead_decrypt(WithContextKey(dec.args), NoFault)
          IN  /\ Visible(dec.res, <<dec.res.m, dec.res.mlen>>)
                   = Visible(one, <<one.m, one.mlen>>)
              /\ (dec.res.ret = 0) <=> (dec.kind = "roundtrip")
              /\ dec.res.ctx_new = 0 /\ dec.res.ctx_free = 0
    /\ heap.ctx.key_set /\ heap.ctx.key = KeyBytes(heap.kj)

C21_Witness ==
    /\ ncalls = MaxBulkCalls
    /\ pc = "decrypted" /\ dec.kind = "roundtrip" /\ dec.res.ret = 0
    /\ enc.args.k.buf # KeyBytes(heap.kj)
    /\ ~IsZero(enc.args.adlen)
    /\ enc.args.mlen = U64(Rate + 1)
    /\ First(dec.res.m, Rate + 1) = First(enc.args.m.buf, Rate + 1)

\* the context bookkeeping of a returned call is clean: at most one context
\* was created, it was freed as often as it was created, and no library call
\* was made on it after it was freed
CleanContext(res) ==
    /\ res.ctx_new <= 1
    /\ res.ctx_free = res.ctx_new
    /\ ~res.ctx_stale

\* C22: context lifetime in the one-shot AES-GCM wrapper.  Whichever library
\* call fails, and also when none fails, a call of crypto_aead_encrypt or
\* crypto_aead_decrypt that returns has freed the context it created exactly
\* once, has made no library call on it afterwards, and a call whose
\* EVP_CIPHER_CTX_new failed has freed nothing.
C22_ContextLifetime ==
    impl = "aesgcm" =>
        /\ (EncCalled /\ ~enc.res.ub) =>
              /\ CleanContext(enc.res)
              /\ (enc.env.fail = 1) <=> (enc.res.ctx_new = 0)
        /\ (DecCalled /\ dec.kind \notin {"bulk", "bulkshort"} /\ ~dec.res.ub) =>
              /\ CleanContext(dec.res)
              /\ (dec.env.fail = 1 \/ dec.kind = "short") <=> (dec.res.ctx_new = 0)

C22_Witness ==
    /\ impl = "aesgcm" /\ DecCalled /\ dec.kind = "roundtrip"
    /\ enc.env.fail = 0 /\ enc.res.ctx_new = 1 /\ enc.res.ctx_free = 1
    /\ dec.env.fail = 6 /\ dec.res.ret = -1
    /\ dec.res.ctx_new = 1 /\ dec.res.ctx_free = 1
    /\ dec.res.cipher_calls = 5

\* C23: statistics buffer bound.  For every initial capacity, 0 included,
\* and after every sequence of adds, whether growing the buffer succeeds or
\* not, count <= capacity, every value was written at an index below the
\* capacity, and no access left the buffer.
C23_StatsBufferBound ==
    heap.s.exists =>
        /\ ~heap.s.ub
        /\ heap.s.count <= heap.s.capacity
        /\ heap.s.wrote # <<>> => heap.s.wrote[1] < heap.s.wrote[2]

\* the values the buffer holds for the object
Stored(s) == SubSeq(s.block.cells, 1, s.count)

RECURSIVE SumSeq(_)
SumSeq(seq) == IF seq = <<>> THEN 0 ELSE Head(seq) + SumSeq(Tail(seq))

Values(seq) == {seq[i] : i \in DOMAIN seq}

\* C24: statistics summary consistency.  After every sequence of adds the
\* buffer holds count values, sum is their sum, min and max are the smallest
\* and the largest of them; an add that could not grow the buffer leaves
\* count, sum, min, max and the buffer as they were.
C24_StatsSummary ==
    heap.s.exists =>
        /\ ~heap.s.ub
        /\ ~heap.s.block.freed
        /\ heap.s.count <= heap.s.block.size
        /\ heap.s.count <= heap.s.block.size =>
              /\ heap.s.sum = SumSeq(Stored(heap.s))
              /\ Uninit \notin Values(Stored(heap.s))
              /\ heap.s.count > 0 =>
                    /\ heap.s.min \in Values(Stored(heap.s))
                    /\ heap.s.max \in Values(Stored(heap.s))
                    /\ \A v \in Values(Stored(heap.s)) : heap.s.min <= v /\ v <= heap.s.max
        /\ heap.op = "add_failed" => heap.s = heap.before

\* the k-th smallest of the values of seq, counted with repetitions
Kth(seq, k) ==
    CHOOSE x \in Values(seq) :
        /\ Cardinality({i \in DOMAIN seq : seq[i] < x}) < k
        /\ Cardinality({i \in DOMAIN seq : seq[i] <= x}) >= k

SameFrac(f, g) == f.num * g.den = g.num * f.den

\* C25: rocca_stats_compute.  For count > 0 the median becomes the middle
\* value in ascending order (count odd) or the average of the two middle
\* values (count even) and the mean becomes sum/count, while the stored
\* values, their order, count, sum, min and max stay as they were; for
\* count = 0 nothing changes.
C25_StatsCompute ==
    (heap.op = "compute" /\ heap.before.count <= heap.before.block.size) =>
        LET b == heap.before
            s == heap.s
            n == b.count
        IN  /\ ~s.ub
            /\ s.block = b.block /\ s.count = b.count /\ s.sum = b.sum
            /\ s.min = b.min /\ s.max = b.max
            /\ n = 0 => s = b
            /\ n > 0 =>
                  /\ SameFrac(s.mean, Frac(b.sum, n))
                  /\ SameFrac(s.median,
                              IF n % 2 = 1 THEN Frac(Kth(Stored(b), (n \div 2) + 1), 1)
                              ELSE Frac(Kth(Stored(b), n \div 2)
                                          + Kth(Stored(b), (n \div 2) + 1), 2))

\* iterations per second are at least n: it / (m * 2^-e) >= n
RateAtLeast(warmup_time, warmup_iterations, n) ==
    IF warmup_time.e > SizeBits THEN TRUE
    ELSE warmup_iterations * 2^warmup_time.e >= n * warmup_time.m

\* C26: calculate_iterations returns 100 for a warm-up time <= 0 or no
\* warm-up iteration, and otherwise the iterations per second of the warm-up
\* cut to a whole number and clamped to 10..100000; it never returns 0 or
\* more than 100000.
C26_CalculateIterations ==
    thr.pc = "returned" =>
        LET t  == thr.in.warmup_time
            it == thr.in.warmup_iterations
        IN  /\ (t.m <= 0 \/ it = 0) => thr.ret = 100
            /\ thr.ret \in 10..100000
            /\ (t.m > 0 /\ it > 0) =>
                  /\ RateAtLeast(t, it, 100000) => thr.ret = 100000
                  /\ ~RateAtLeast(t, it, 10) => thr.ret = 10
                  /\ (RateAtLeast(t, it, 10) /\ ~RateAtLeast(t, it, 100000)) =>
                        /\ RateAtLeast(t, it, thr.ret)
                        /\ ~RateAtLeast(t, it, thr.ret + 1)

\* the speed test function has returned to its caller
BenchReturned == thr.pc \in {"returned", "printed", "done"}

\* the warm-up: one timer start; the loop goes on only while the time since
\* that start is below WARMUP_TIME, and is left, after at least one pass, at
\* the first test that finds it reached
WarmupOnce ==
    /\ thr.starts <= 1
    /\ thr.pc = "warmup" => rocca_timer_elapsed_seconds(thr.timer) < WARMUP_TIME
    /\ thr.pc = "calc" =>
          /\ thr.starts = 1 /\ thr.warmup_iterations >= 1
          /\ thr.prev < WARMUP_TIME
          /\ rocca_timer_elapsed_seconds(thr.timer) >= WARMUP_TIME
    /\ (thr.pc \in {"measure", "compute"} \/ (BenchReturned /\ thr.starts = 1)) =>
          /\ thr.warmup_iterations >= 1
          /\ thr.prev < WARMUP_TIME /\ thr.warmup_time >= WARMUP_TIME

\* the rounds run so far all ran the one iteration count, within 10..100000
RoundsFixed ==
    /\ Len(thr.ran) = thr.i /\ thr.i <= NUM_MEASUREMENTS
    /\ thr.pc = "measure" => thr.i < NUM_MEASUREMENTS
    /\ \A k \in 1..Len(thr.ran) :
          /\ thr.ran[k] = thr.iterations_per_measurement
          /\ thr.ran[k] \in 10..100000

\* C27 as stated: with an advancing clock every speed test that starts its
\* warm-up runs at least one pass, leaves the loop once WARMUP_TIME has
\* passed since the single timer start, then runs exactly NUM_MEASUREMENTS
\* rounds of one iteration count within 10..100000 and returns.
C27_Original ==
    /\ [](WarmupOnce /\ RoundsFixed)
    /\ []((BenchReturned /\ thr.starts = 1) => Len(thr.ran) = NUM_MEASUREMENTS)
    /\ <>BenchReturned

\* C27: as above, except that a speed test whose statistics object cannot be
\* allocated after the warm-up returns without any measurement round.
C27_WarmupAndRounds ==
    /\ [](WarmupOnce /\ RoundsFixed)
    /\ []((BenchReturned /\ thr.starts = 1) =>
             /\ thr.result = "stats" => Len(thr.ran) = NUM_MEASUREMENTS
             /\ thr.result = "null" => Len(thr.ran) = 0)
    /\ []((thr.pc = "compute") => Len(thr.ran) = NUM_MEASUREMENTS)
    /\ <>BenchReturned

C27_Witness ==
    /\ thr.pc = "done" /\ thr.result = "stats"
    /\ thr.starts = 1 /\ thr.warmup_iterations >= 3
    /\ Len(thr.ran) = NUM_MEASUREMENTS
    /\ thr.iterations_per_measurement > 10

\* C28: in the three speed test functions no buffer is used after it was
\* freed or freed twice; at every return (ad missing, msg, ct or dec missing,
\* statistics missing, or completion) each buffer that was allocated has been
\* freed once; only the statistics object returned is still allocated, and
\* the caller frees it once, after printing.
C28_BufferLifetime ==
    /\ \A n \in Buffers \cup {"obj", "values"} : ~heap[n].stale /\ heap[n].frees <= 1
    /\ heap.stats.exists => ~heap.stats.ub
    /\ BenchReturned =>
          \A n \in Buffers : /\ heap[n].ptr /= "live"
                             /\ heap[n].ptr = "freed" => heap[n].frees = 1
    /\ (BenchReturned /\ thr.pc /= "done") =>
          /\ thr.result = "stats" => heap.obj.ptr = "live" /\ heap.values.ptr = "live"
          /\ thr.result = "null" => heap.obj.ptr = "null" /\ heap.values.ptr = "null"
    /\ thr.pc = "done" =>
          /\ heap.obj.ptr /= "live" /\ heap.values.ptr /= "live"
          /\ thr.result = "stats" => heap.obj.frees = 1 /\ heap.values.frees = 1

C28_Witness ==
    /\ thr.pc = "done" /\ thr.kind = "decode" /\ thr.aead
    /\ thr.result = "stats"
    /\ \A n \in Buffers \cup {"obj", "values"} : heap[n].ptr = "freed" /\ heap[n].frees = 1
====
